---- MODULE Spec2Model ----
(***************************************************************************)
(* NapkinFlow: the text-to-graph parser parseWorkflow of src/FlowCanvas.jsx *)
(* as a state machine.  A text is a sequence of one-character strings; the  *)
(* unicode arrow U+2192 is the single character "U2192".  One action per    *)
(* step of the parser: the early return, the branch split, the per-branch   *)
(* token pre-processing, and one action per kind of processed token.        *)
(***************************************************************************)
EXTENDS Integers, Sequences, FiniteSets, TLC

VARIABLES
    text,               \* the argument of parseWorkflow
    pc,                 \* "call" | "branch" | "token" | "done"
    nodes,              \* const nodes = []
    edges,              \* const edges = []
    nodeMap,            \* const nodeMap = new Map(): label -> id
    branches,           \* const branches
    branchIndex,        \* forEach index over branches
    processedTokens,    \* const processedTokens of the current branch
    index,              \* forEach index over processedTokens
    previousNodeId,     \* let previousNodeId
    pendingEdgeLabel,   \* let pendingEdgeLabel
    lastDecisionNode,   \* let lastDecisionNode
    log,                \* history: one record per processed token
    returned,           \* history: the text and the result of every finished call
    parsedData,         \* App: const [parsedData, setParsedData], the displayed graph
    loading,            \* App: const [loading, setLoading]
    aiPc,               \* handleAIGenerate: "idle" | "request" | "check" | "finally"
    response,           \* what the proxy answered to the request in flight
    graph,              \* handleAIGenerate: const graph
    alert,              \* the message of the last alert(), "none" before any
    before,             \* history: parsedData when the request was started
    clicks,             \* history: the requests started so far
    inFlight,           \* the requests to the proxy that have not settled
    ignored,            \* history: the calls that returned on if (loading)
    engine,             \* the layout step at work: "calculateLayout" | "FlowCanvas"
    lnodes,             \* the nodes the layout step is given
    ledges,             \* the edges the layout step is given
    lpc,                \* the layout step: "start" | "built" | "done"
    g,                  \* const g = new dagre.graphlib.Graph()
    outcome,            \* "none" | "laid out" | "skipped" | "TypeError"
    layout,             \* the positioned nodes, the width and the height
    laidOut,            \* history: the input and the layout of every finished call
    workflowText,       \* FlowchartCanvas: the prop workflowText
    renderer,           \* FlowchartCanvas: const [renderer, setRenderer]: "null" | "ready"
    canvasLayout,       \* FlowchartCanvas: const [layout, setLayout], NoLayout for null
    canvas,             \* what the renderer holds: blank, cleared, or a layout drawn
    parsed,             \* the effect: const { nodes, edges } of its last parse
    cpc,                \* the effect on [renderer, workflowText]: "idle" | "effect"
    changes             \* history: the changes of workflowText so far

parserVars == <<text, pc, nodes, edges, nodeMap, branches, branchIndex,
                processedTokens, index, previousNodeId, pendingEdgeLabel,
                lastDecisionNode, log, returned>>

aiVars == <<parsedData, loading, aiPc, response, graph, alert, before, clicks,
            inFlight, ignored>>

layoutVars == <<engine, lnodes, ledges, lpc, g, outcome, layout, laidOut>>

canvasVars == <<workflowText, renderer, canvasLayout, canvas, parsed, cpc, changes>>

\* what a step of parseWorkflow does not touch
others == <<aiVars, layoutVars, canvasVars>>

vars == <<parserVars, aiVars, layoutVars, canvasVars>>

----------------------------------------------------------------------------
(* JavaScript values *)

\* null as a node id (ids are node_0, node_1, ...: the number alone is kept)
NoNode == -1

\* null as an edge label or as a text; no one-character string equals "null",
\* so it differs from every string, the empty string included
Null == <<"null">>

\* the unicode arrow, one character
UArrow == "U2192"

\* what String.prototype.trim and the regex class \s take for white space
WhiteSpace == {" ", "\t", "\n"}

\* what the regex "." does not match
LineTerminators == {"\n"}

IsWS(c) == c \in WhiteSpace

IsDot(c) == c \notin LineTerminators

Upper == <<"A", "B", "C", "D", "E", "F", "G", "H", "I", "J", "K", "L", "M",
           "N", "O", "P", "Q", "R", "S", "T", "U", "V", "W", "X", "Y", "Z">>

Lower == <<"a", "b", "c", "d", "e", "f", "g", "h", "i", "j", "k", "l", "m",
           "n", "o", "p", "q", "r", "s", "t", "u", "v", "w", "x", "y", "z">>

UpperToLower ==
    [c \in {Upper[i] : i \in 1..26} |-> Lower[CHOOSE i \in 1..26 : Upper[i] = c]]

ToLowerCase(s) ==
    [i \in 1..Len(s) |-> IF s[i] \in DOMAIN UpperToLower THEN UpperToLower[s[i]] ELSE s[i]]

\* s.slice(from - 1, to) with 1-based inclusive positions
Slice(s, from, to) == IF from > to THEN <<>> ELSE SubSeq(s, from, to)

\* number of leading white-space characters of s
RECURSIVE LeadingWS(_)
LeadingWS(s) ==
    IF s = <<>> \/ ~IsWS(Head(s)) THEN 0 ELSE 1 + LeadingWS(Tail(s))

RECURSIVE TrailingWS(_)
TrailingWS(s) ==
    IF s = <<>> \/ ~IsWS(s[Len(s)]) THEN 0
    ELSE 1 + TrailingWS(SubSeq(s, 1, Len(s) - 1))

Trim(s) ==
    IF LeadingWS(s) = Len(s) THEN <<>>
    ELSE Slice(s, LeadingWS(s) + 1, Len(s) - TrailingWS(s))

StartsWith(s, p) == Len(s) >= Len(p) /\ SubSeq(s, 1, Len(p)) = p

\* no .filter(b => b): the empty strings stay
FilterNothing(ss) == ss

RECURSIVE Filter(_)
\* .filter(b => b): drops the empty strings
Filter(ss) ==
    IF ss = <<>> THEN <<>>
    ELSE IF Head(ss) = <<>> THEN Filter(Tail(ss))
    ELSE <<Head(ss)>> \o Filter(Tail(ss))

MapTrim(ss) == [i \in 1..Len(ss) |-> Trim(ss[i])]

RECURSIVE Flatten(_)
Flatten(ss) == IF ss = <<>> THEN <<>> ELSE Head(ss) \o Flatten(Tail(ss))

----------------------------------------------------------------------------
(* The tokenizer *)

\* text.replace without the g flag: only the first arrow is replaced
RECURSIVE NormalizeFirstArrow(_)
NormalizeFirstArrow(s) ==
    IF s = <<>> THEN <<>>
    ELSE IF Head(s) = UArrow THEN <<"-", ">">> \o Tail(s)
    ELSE <<Head(s)>> \o NormalizeFirstArrow(Tail(s))

RECURSIVE NormalizeArrows(_)
\* text.replace(/U+2192/g, '->')
NormalizeArrows(s) ==
    IF s = <<>> THEN <<>>
    ELSE IF Head(s) = UArrow THEN <<"-", ">">> \o NormalizeArrows(Tail(s))
    ELSE <<Head(s)>> \o NormalizeArrows(Tail(s))

RECURSIVE SplitSemi(_, _)
\* normalized.split(';'): cur is the piece being read
SplitSemi(s, cur) ==
    IF s = <<>> THEN <<cur>>
    ELSE IF Head(s) = ";" THEN <<cur>> \o SplitSemi(Tail(s), <<>>)
    ELSE SplitSemi(Tail(s), Append(cur, Head(s)))

\* length of the match of /\s*->\s*/ at the start of s, 0 when there is none
ArrowMatchLen(s) ==
    LET w == LeadingWS(s)
        r == Slice(s, w + 1, Len(s))
    IN  IF StartsWith(r, <<"-", ">">>)
        THEN w + 2 + LeadingWS(Slice(r, 3, Len(r)))
        ELSE 0

RECURSIVE SplitArrow(_, _)
\* branch.split(/\s*->\s*/): the leftmost match ends the piece being read
SplitArrow(s, cur) ==
    IF s = <<>> THEN <<cur>>
    ELSE IF ArrowMatchLen(s) > 0
         THEN <<cur>> \o SplitArrow(Slice(s, ArrowMatchLen(s) + 1, Len(s)), <<>>)
    ELSE SplitArrow(Tail(s), Append(cur, Head(s)))

\* normalized.split(';').map(b => b.trim()).filter(b => b)
Branches(t) == Filter(MapTrim(SplitSemi(NormalizeArrows(t), <<>>)))

\* branch.split(/\s*->\s*/).map(t => t.trim()).filter(t => t)
Tokens(branch) == Filter(MapTrim(SplitArrow(branch, <<>>)))

----------------------------------------------------------------------------
(* The token classifier *)

\* const EDGE_LABEL_KEYWORDS = ['yes', 'no', 'true', 'false', 'ok', 'cancel']
EDGE_LABEL_KEYWORDS ==
    { <<"y", "e", "s">>, <<"n", "o">>, <<"t", "r", "u", "e">>,
      <<"f", "a", "l", "s", "e">>, <<"o", "k">>,
      <<"c", "a", "n", "c", "e", "l">> }

\* EDGE_LABEL_KEYWORDS.includes(token.toLowerCase())
IsEdgeLabel(token) == ToLowerCase(token) \in EDGE_LABEL_KEYWORDS

AllDot(s) == \A i \in 1..Len(s) : IsDot(s[i])

NoCloseBracket(s) == \A i \in 1..Len(s) : s[i] # "]"

\* s matches /^\[([^\]]+)\]$/
IsBracketOnly(s) ==
    /\ Len(s) >= 3
    /\ s[1] = "["
    /\ s[Len(s)] = "]"
    /\ NoCloseBracket(Slice(s, 2, Len(s) - 1))

\* group 1 of /^\[([^\]]+)\]$/
BracketOnlyBody(s) == Slice(s, 2, Len(s) - 1)

\* s matches /^\s+\[([^\]]+)\]$/ : the tail of decisionBracketMatch
IsWSBracket(s) == LeadingWS(s) >= 1 /\ IsBracketOnly(Slice(s, LeadingWS(s) + 1, Len(s)))

\* s matches /^\s+(yes|no|true|false|ok|cancel)$/i : the tail of decisionMatch
IsWSKeyword(s) == LeadingWS(s) >= 1 /\ IsEdgeLabel(Slice(s, LeadingWS(s) + 1, Len(s)))

\* the positions p of a '?' that can end group 1 of /^(.+\?)\s+\[([^\]]+)\]$/
DecisionBracketCuts(token) ==
    { p \in 2..Len(token) :
        /\ token[p] = "?"
        /\ AllDot(Slice(token, 1, p))
        /\ IsWSBracket(Slice(token, p + 1, Len(token))) }

\* the positions p of a '?' that can end group 1 of /^(.+\?)\s+(keyword)$/i
DecisionKeywordCuts(token) ==
    { p \in 2..Len(token) :
        /\ token[p] = "?"
        /\ AllDot(Slice(token, 1, p))
        /\ IsWSKeyword(Slice(token, p + 1, Len(token))) }

Max(S) == CHOOSE x \in S : \A y \in S : y <= x

\* token.match(/^(.+\?)\s+\[([^\]]+)\]$/): the greedy .+ takes the last cut
DecisionBracketSplit(token) ==
    LET p == Max(DecisionBracketCuts(token))
        rest == Slice(token, p + 1, Len(token))
    IN  << Trim(Slice(token, 1, p)),
           <<"[">> \o Trim(BracketOnlyBody(Trim(rest))) \o <<"]">> >>

\* token.match(new RegExp(`^(.+\\?)\\s+(${edgeKeywordsPattern})$`, 'i'))
DecisionKeywordSplit(token) ==
    LET p == Max(DecisionKeywordCuts(token))
        rest == Slice(token, p + 1, Len(token))
    IN  << Trim(Slice(token, 1, p)), Trim(rest) >>

\* no pre-processing: every token is pushed as it is
PreProcessTokenNoSplit(token) == <<token>>

\* the body of tokens.forEach((token, i) => ...): what one token pushes
PreProcessToken(token) ==
    IF DecisionBracketCuts(token) # {} THEN DecisionBracketSplit(token)
    ELSE IF DecisionKeywordCuts(token) # {} THEN DecisionKeywordSplit(token)
    ELSE <<token>>

\* processedTokens after the pre-processing loop
PreProcess(tokens) == Flatten([i \in 1..Len(tokens) |-> PreProcessToken(tokens[i])])

\* position of the first ']' of s, 0 when there is none
RECURSIVE FirstClose(_, _)
FirstClose(s, i) ==
    IF i > Len(s) THEN 0 ELSE IF s[i] = "]" THEN i ELSE FirstClose(s, i + 1)

\* token matches /^\[([^\]]+)\]\s+(.+)$/
IsBracketPrefix(token) ==
    LET q == FirstClose(token, 1)
        rest == Slice(token, q + 1, Len(token))
    IN  /\ Len(token) >= 1
        /\ token[1] = "["
        /\ q >= 3
        /\ \E w \in 1..LeadingWS(rest) :
              /\ Len(rest) > w
              /\ AllDot(Slice(rest, w + 1, Len(rest)))

\* bracketMatch[1].trim()
BracketPrefixLabel(token) == Trim(Slice(token, 2, FirstClose(token, 1) - 1))

\* bracketMatch[2].trim(): the greedy \s+ gives back white space only to
\* let .+ match, and trim() removes what it gave back
BracketPrefixContent(token) ==
    Trim(Slice(token, FirstClose(token, 1) + 1, Len(token)))

----------------------------------------------------------------------------
(* The graph builder *)

\* getOrCreateNode returning a fresh id for a label it already holds
GetOrCreateNodeStaleId(ns, nm, label, type) ==
    IF label \in DOMAIN nm
    THEN [id |-> Len(ns), nodes |-> ns, nodeMap |-> nm]
    ELSE [id |-> Len(ns),
          nodes |-> Append(ns, [id |-> Len(ns), label |-> label, type |-> type]),
          nodeMap |-> [l \in DOMAIN nm \cup {label} |->
                          IF l = label THEN Len(ns) ELSE nm[l]]]

\* getOrCreateNode keyed by the lower-cased label
GetOrCreateNodeIgnoreCase(ns, nm, label, type) ==
    IF \E l \in DOMAIN nm : ToLowerCase(l) = ToLowerCase(label)
    THEN [id |-> nm[CHOOSE l \in DOMAIN nm : ToLowerCase(l) = ToLowerCase(label)],
          nodes |-> ns, nodeMap |-> nm]
    ELSE [id |-> Len(ns),
          nodes |-> Append(ns, [id |-> Len(ns), label |-> label, type |-> type]),
          nodeMap |-> [l \in DOMAIN nm \cup {label} |->
                          IF l = label THEN Len(ns) ELSE nm[l]]]

\* getOrCreateNode without the nodeMap lookup: every token gets a new node
GetOrCreateNodeAlwaysNew(ns, nm, label, type) ==
    [id |-> Len(ns),
     nodes |-> Append(ns, [id |-> Len(ns), label |-> label, type |-> type]),
     nodeMap |-> [l \in DOMAIN nm \cup {label} |-> IF l = label THEN Len(ns) ELSE nm[l]]]

\* getOrCreateNode giving a node it already holds the type now asked for
GetOrCreateNodeRetype(ns, nm, label, type) ==
    IF label \in DOMAIN nm
    THEN [id |-> nm[label],
          nodes |-> [k \in 1..Len(ns) |->
                       IF ns[k].id = nm[label] THEN [ns[k] EXCEPT !.type = type]
                       ELSE ns[k]],
          nodeMap |-> nm]
    ELSE [id |-> Len(ns),
          nodes |-> Append(ns, [id |-> Len(ns), label |-> label, type |-> type]),
          nodeMap |-> [l \in DOMAIN nm \cup {label} |->
                          IF l = label THEN Len(ns) ELSE nm[l]]]

\* function getOrCreateNode(nodes, nodeMap, label, type): the id it returns,
\* with nodes and nodeMap as it leaves them
GetOrCreateNode(ns, nm, label, type) ==
    IF label \in DOMAIN nm
    THEN [id |-> nm[label], nodes |-> ns, nodeMap |-> nm]
    ELSE [id |-> Len(ns),
          nodes |-> Append(ns, [id |-> Len(ns), label |-> label, type |-> type]),
          nodeMap |-> [l \in DOMAIN nm \cup {label} |->
                          IF l = label THEN Len(ns) ELSE nm[l]]]

\* nodeLabel.endsWith('?')
IsDecision(nodeLabel) == nodeLabel # <<>> /\ nodeLabel[Len(nodeLabel)] = "?"

\* isDecision ? nodeLabel.slice(0, -1).trim() : nodeLabel
CleanLabel(nodeLabel) ==
    IF IsDecision(nodeLabel) THEN Trim(Slice(nodeLabel, 1, Len(nodeLabel) - 1))
    ELSE nodeLabel

\* nodeLabel of a node token: bracketMatch ? bracketMatch[2].trim() : token
NodeLabel(token) ==
    IF IsBracketPrefix(token) THEN BracketPrefixContent(token) ELSE token

\* edgeLabel of a node token: bracketMatch ? bracketMatch[1].trim() : pendingEdgeLabel
EdgeLabel(token, pending) ==
    IF IsBracketPrefix(token) THEN BracketPrefixLabel(token) ELSE pending

\* branchIndex > 0 && index === 0
FirstOfLaterBranch(bi, idx) == bi > 0 /\ idx = 0

\* a keyword taken as an edge label wherever it stands
IsKeywordLabelAnywhere(token, prev, bi, idx) == IsEdgeLabel(token)

\* the guard of the keyword early return:
\* isEdgeLabel && (previousNodeId !== null || (branchIndex > 0 && index === 0))
IsKeywordLabel(token, prev, bi, idx) ==
    IsEdgeLabel(token) /\ (prev # NoNode \/ FirstOfLaterBranch(bi, idx))

\* let previousNodeId = branchIndex > 0 ? lastDecisionNode : null
InitialPrevious(bi, lastDecision) == IF bi > 0 THEN lastDecision ELSE NoNode

\* a token with a '[' or a ']' that is neither '[l]' nor '[l] content'
IsStray(token) ==
    /\ \E i \in 1..Len(token) : token[i] \in {"[", "]"}
    /\ ~IsBracketOnly(token)
    /\ ~IsBracketPrefix(token)

\* a classification that has no kind for a token with a stray bracket
TokenKindNoStray(token, prev, bi, idx) ==
    IF IsBracketOnly(token) THEN "bracket"
    ELSE IF IsKeywordLabel(token, prev, bi, idx) THEN "keyword"
    ELSE IF IsStray(token) THEN "throw"
    ELSE "node"

\* the kind of a processed token, in the order the callback tests them
TokenKind(token, prev, bi, idx) ==
    IF IsBracketOnly(token) THEN "bracket"
    ELSE IF IsKeywordLabel(token, prev, bi, idx) THEN "keyword"
    ELSE "node"

\* the parser's mutable state as one value
ParserState(ns, es, nm, prev, pending, lastDecision) ==
    [nodes |-> ns, edges |-> es, nodeMap |-> nm, previousNodeId |-> prev,
     pendingEdgeLabel |-> pending, lastDecisionNode |-> lastDecision]

\* a bracket-only token: the pending label is set, and the branch start
\* re-reads the last decision
StepBracketOnly(st, token, bi, idx) ==
    [st EXCEPT !.pendingEdgeLabel = Trim(BracketOnlyBody(token)),
               !.previousNodeId = IF FirstOfLaterBranch(bi, idx)
                                  THEN st.lastDecisionNode ELSE @]

\* a keyword token taken as an edge label
StepKeyword(st, token, bi, idx) ==
    [st EXCEPT !.pendingEdgeLabel = token,
               !.previousNodeId = IF FirstOfLaterBranch(bi, idx)
                                  THEN st.lastDecisionNode ELSE @]

\* a node token that moves the last-decision pointer only the first time
StepNodeFirstDecisionOnly(st, token) ==
    LET nodeLabel == NodeLabel(token)
        edgeLabel == EdgeLabel(token, st.pendingEdgeLabel)
        isDecision == IsDecision(nodeLabel)
        got == GetOrCreateNode(st.nodes, st.nodeMap, CleanLabel(nodeLabel),
                               IF isDecision THEN "decision" ELSE "process")
    IN  [nodes |-> got.nodes,
         nodeMap |-> got.nodeMap,
         edges |-> IF st.previousNodeId # NoNode
                   THEN Append(st.edges, [from |-> st.previousNodeId,
                                          to |-> got.id, label |-> edgeLabel])
                   ELSE st.edges,
         previousNodeId |-> got.id,
         pendingEdgeLabel |-> Null,
         lastDecisionNode |-> IF isDecision /\ st.lastDecisionNode = NoNode
                              THEN got.id ELSE st.lastDecisionNode]

\* a node token that pushes no second edge between the same two nodes
StepNodeCollapseEdges(st, token) ==
    LET nodeLabel == NodeLabel(token)
        edgeLabel == EdgeLabel(token, st.pendingEdgeLabel)
        isDecision == IsDecision(nodeLabel)
        got == GetOrCreateNode(st.nodes, st.nodeMap, CleanLabel(nodeLabel),
                               IF isDecision THEN "decision" ELSE "process")
        known == \E e \in 1..Len(st.edges) :
                    st.edges[e].from = st.previousNodeId /\ st.edges[e].to = got.id
    IN  [nodes |-> got.nodes,
         nodeMap |-> got.nodeMap,
         edges |-> IF st.previousNodeId # NoNode /\ ~known
                   THEN Append(st.edges, [from |-> st.previousNodeId,
                                          to |-> got.id, label |-> edgeLabel])
                   ELSE st.edges,
         previousNodeId |-> got.id,
         pendingEdgeLabel |-> Null,
         lastDecisionNode |-> IF isDecision THEN got.id ELSE st.lastDecisionNode]

\* a node token that leaves the pending label where it is
StepNodeKeepPending(st, token) ==
    LET nodeLabel == NodeLabel(token)
        edgeLabel == EdgeLabel(token, st.pendingEdgeLabel)
        isDecision == IsDecision(nodeLabel)
        got == GetOrCreateNode(st.nodes, st.nodeMap, CleanLabel(nodeLabel),
                               IF isDecision THEN "decision" ELSE "process")
    IN  [nodes |-> got.nodes,
         nodeMap |-> got.nodeMap,
         edges |-> IF st.previousNodeId # NoNode
                   THEN Append(st.edges, [from |-> st.previousNodeId,
                                          to |-> got.id, label |-> edgeLabel])
                   ELSE st.edges,
         previousNodeId |-> got.id,
         pendingEdgeLabel |-> st.pendingEdgeLabel,
         lastDecisionNode |-> IF isDecision THEN got.id ELSE st.lastDecisionNode]

\* a node token: the node is looked up or created, the edge from the previous
\* node is pushed, and the pointers move on
StepNode(st, token) ==
    LET nodeLabel == NodeLabel(token)
        edgeLabel == EdgeLabel(token, st.pendingEdgeLabel)
        isDecision == IsDecision(nodeLabel)
        got == GetOrCreateNode(st.nodes, st.nodeMap, CleanLabel(nodeLabel),
                               IF isDecision THEN "decision" ELSE "process")
    IN  [nodes |-> got.nodes,
         nodeMap |-> got.nodeMap,
         edges |-> IF st.previousNodeId # NoNode
                   THEN Append(st.edges, [from |-> st.previousNodeId,
                                          to |-> got.id, label |-> edgeLabel])
                   ELSE st.edges,
         previousNodeId |-> got.id,
         pendingEdgeLabel |-> Null,
         lastDecisionNode |-> IF isDecision THEN got.id ELSE st.lastDecisionNode]

\* the body of processedTokens.forEach((token, index) => ...)
ProcessToken(st, token, bi, idx) ==
    CASE TokenKind(token, st.previousNodeId, bi, idx) = "bracket" ->
            StepBracketOnly(st, token, bi, idx)
      [] TokenKind(token, st.previousNodeId, bi, idx) = "keyword" ->
            StepKeyword(st, token, bi, idx)
      [] OTHER -> StepNode(st, token)

----------------------------------------------------------------------------
(* parseWorkflow as a function of its argument *)

\* the guard without its !text test
IsEmptyTextNoNull(t) == t = <<>> \/ Trim(t) = <<>>

\* !text || !text.trim()
IsEmptyText(t) == t = Null \/ t = <<>> \/ Trim(t) = <<>>

\* a branch that starts with the label the branch before left pending
BranchStartKeepPending(st, bi) ==
    [st EXCEPT !.previousNodeId = InitialPrevious(bi, st.lastDecisionNode)]

\* the state the callback of branches.forEach starts a branch with
BranchStart(st, bi) ==
    [st EXCEPT !.previousNodeId = InitialPrevious(bi, st.lastDecisionNode),
               !.pendingEdgeLabel = Null]

RECURSIVE ParseTokens(_, _, _, _)
\* processedTokens.forEach from index idx on
ParseTokens(st, toks, bi, idx) ==
    IF idx >= Len(toks) THEN st
    ELSE ParseTokens(ProcessToken(st, toks[idx + 1], bi, idx), toks, bi, idx + 1)

RECURSIVE ParseBranches(_, _, _)
\* branches.forEach from index bi on
ParseBranches(st, brs, bi) ==
    IF bi >= Len(brs) THEN st
    ELSE ParseBranches(ParseTokens(BranchStart(st, bi),
                                   PreProcess(Tokens(brs[bi + 1])), bi, 0),
                       brs, bi + 1)

EmptyMap == [l \in {} |-> 0]

InitialState == ParserState(<<>>, <<>>, EmptyMap, NoNode, Null, NoNode)

\* export function parseWorkflow(text): the { nodes, edges } it returns
ParseWorkflow(t) ==
    IF IsEmptyText(t) THEN [nodes |-> <<>>, edges |-> <<>>]
    ELSE LET st == ParseBranches(InitialState, Branches(t), 0)
         IN  [nodes |-> st.nodes, edges |-> st.edges]

----------------------------------------------------------------------------
(* The texts parseWorkflow is called with *)

\* most raw tokens of a generated text
MaxTokens == 4

\* most lexemes of a generated character-level text
MaxChars == 4

Sp == <<" ">>
Arrow == <<"-", ">">>
Semi == <<";">>

Start == <<"S", "t", "a", "r", "t">>
QualifyLead == <<"Q", "u", "a", "l", "i", "f", "y", " ", "l", "e", "a", "d">>
BookCall == <<"B", "o", "o", "k", " ", "c", "a", "l", "l">>
SendEmail == <<"S", "e", "n", "d", " ", "e", "m", "a", "i", "l">>
End == <<"E", "n", "d">>
Yes == <<"y", "e", "s">>
No == <<"n", "o">>
Approved == <<"a", "p", "p", "r", "o", "v", "e", "d">>

\* "Start -> Qualify lead? yes -> Book call; no -> Send email -> End"
ExampleWith(arrow) ==
    Start \o Sp \o arrow \o Sp \o QualifyLead \o <<"?", " ">> \o Yes \o Sp
      \o arrow \o Sp \o BookCall \o <<";", " ">> \o No \o Sp \o arrow \o Sp
      \o SendEmail \o Sp \o arrow \o Sp \o End

ExampleAscii == ExampleWith(Arrow)

\* const EXAMPLE_TEXT, written with the unicode arrow
EXAMPLE_TEXT == ExampleWith(<<UArrow>>)

\* "A? yes -> B; no -> C"
BranchExample ==
    <<"A", "?", " ">> \o Yes \o Sp \o Arrow \o <<" ", "B", ";", " ">> \o No
      \o Sp \o Arrow \o <<" ", "C">>

\* "A? [approved] -> B"
BracketExample ==
    <<"A", "?", " ", "[">> \o Approved \o <<"]", " ">> \o Arrow \o <<" ", "B">>

\* "A? yes -> B"
KeywordExample == <<"A", "?", " ">> \o Yes \o Sp \o Arrow \o <<" ", "B">>

\* "A -> B" and the same with the unicode arrow
ArrowExampleAscii == <<"A", " ">> \o Arrow \o <<" ", "B">>

ArrowExampleUnicode == <<"A", " ", UArrow, " ", "B">>

\* "A? yes -> B; no -> B"
SamePairExample ==
    <<"A", "?", " ">> \o Yes \o Sp \o Arrow \o <<" ", "B", ";", " ">> \o No
      \o Sp \o Arrow \o <<" ", "B">>

\* "A -> a -> A"
CaseExample == <<"A", " ">> \o Arrow \o <<" ", "a", " ">> \o Arrow \o <<" ", "A">>

\* "A -> [y] [x] -> B"
TwoLabelsExample ==
    <<"A", " ">> \o Arrow \o <<" ", "[", "y", "]", " ", "[", "x", "]", " ">>
      \o Arrow \o <<" ", "B">>

\* "A -> [y] B" with the content "B", a line break, "C"
TwoLinesExample ==
    <<"A", " ">> \o Arrow \o <<" ", "[", "y", "]", " ", "B", "\n", "C">>

\* "; A ->  -> B ;;"
EmptiesExample ==
    <<";", " ", "A", " ">> \o Arrow \o <<" ", " ">> \o Arrow \o <<" ", "B", " ", ";", ";">>

\* "->; yes -> B"
ArrowOnlyExample == Arrow \o <<";", " ">> \o Yes \o Sp \o Arrow \o <<" ", "B">>

ExampleTexts ==
    { ExampleAscii, EXAMPLE_TEXT, BranchExample, BracketExample, KeywordExample,
      ArrowExampleAscii, ArrowExampleUnicode, CaseExample, SamePairExample,
      TwoLabelsExample, TwoLinesExample, EmptiesExample, ArrowOnlyExample,
      Null, <<>>, <<" ">>, <<" ", "\n", "\t">> }

\* raw tokens every generated text draws from
CoreTokens == { <<"A">>, <<"B">>, <<"A", "?">>, Yes }

\* raw tokens the generated texts of one token less draw from as well
MidTokens ==
    { <<"[", "x", "]">>, <<"B", "?">> }

\* raw tokens the generated texts of two tokens less draw from as well
EdgeTokens ==
    { <<>>, <<"[", "y", "]", " ", "B">>, <<"A", "?", " ", "N", "o">>,
      <<"a">>, <<"A", " ", "?">>, <<"B", "?", "\n", "[", " ", "x", "]">>, <<"[", "x">>,
      <<"A", "\n", "B", "?", " ">> \o Yes,
      <<"[", "y", "]", " ", "[", "x", "]">>, <<"A", "?", " ", "[", " ", "]">>,
      <<"x", "]", "?">> }

Separators == { Sp \o Arrow \o Sp, Semi }

RECURSIVE Joined(_, _)
\* the texts of exactly k tokens of toks, joined by separators
Joined(toks, k) ==
    IF k <= 0 THEN {}
    ELSE IF k = 1 THEN toks
    ELSE { t \o sep \o tok : t \in Joined(toks, k - 1), sep \in Separators, tok \in toks }

MidVocabulary == CoreTokens \cup MidTokens

EdgeVocabulary == MidVocabulary \cup EdgeTokens

\* what a character-level text is made of
Lexemes == { <<"A">>, Sp, Arrow, <<UArrow>>, Semi, <<"-">> }

RECURSIVE Strings(_)
\* the texts of exactly k lexemes
Strings(k) ==
    IF k = 0 THEN { <<>> }
    ELSE { s \o l : s \in Strings(k - 1), l \in Lexemes }

\* the texts parseWorkflow is given: the examples, the texts of up to MaxTokens
\* core tokens, of fewer tokens of the wider vocabularies, and the texts of up
\* to MaxChars lexemes
IsInput(t) ==
    \/ t \in ExampleTexts
    \/ \E k \in 1..MaxTokens : t \in Joined(CoreTokens, k)
    \/ \E k \in 1..(MaxTokens - 1) : t \in Joined(MidVocabulary, k)
    \/ \E k \in 1..(MaxTokens - 2) : t \in Joined(EdgeVocabulary, k)
    \/ \E k \in 0..MaxChars : t \in Strings(k)

----------------------------------------------------------------------------
(* The graph the AI proxy answers with, as JSON values *)

\* a property that is missing
Undefined == [kind |-> "undefined", items |-> <<>>]

\* a property that is present and is not an array
NotArray == [kind |-> "string", items |-> <<>>]

\* an array
Arr(items) == [kind |-> "array", items |-> items]

\* Array.isArray(v)
IsArray(v) == v.kind = "array"

\* a node object; a field that is missing reads "undefined"
AINode(id, label, type) == [id |-> id, label |-> label, type |-> type]

\* an edge object; a field that is missing reads "undefined"
AIEdge(from, to, label) == [from |-> from, to |-> to, label |-> label]

N1 == AINode("n1", "Start", "start")
N2 == AINode("n2", "End", "process")
BareNode == AINode("undefined", "undefined", "undefined")
E12 == AIEdge("n1", "n2", "yes")
BareEdge == AIEdge("undefined", "undefined", "undefined")

\* a graph value that is falsy: undefined, null, '' or 0
NoGraph == [kind |-> "undefined", nodes |-> Undefined, edges |-> Undefined]

\* a graph object
GraphObject(ns, es) == [kind |-> "object", nodes |-> ns, edges |-> es]

NodeLists ==
    { Undefined, NotArray, Arr(<<>>), Arr(<<N1>>), Arr(<<N1, N2>>), Arr(<<BareNode>>),
      Arr(<<N1, BareNode>>) }

EdgeLists == { Undefined, NotArray, Arr(<<>>), Arr(<<E12>>), Arr(<<BareEdge>>) }

GraphValues == { NoGraph } \cup { GraphObject(ns, es) : ns \in NodeLists, es \in EdgeLists }

\* useState({ nodes: [], edges: [] })
EmptyGraph == GraphObject(Arr(<<>>), Arr(<<>>))

\* the state of App before any request
AppInit ==
    /\ parsedData = EmptyGraph
    /\ loading = FALSE
    /\ aiPc = "idle"
    /\ response = [json |-> FALSE, ok |-> FALSE, graph |-> NoGraph]
    /\ graph = NoGraph
    /\ alert = "none"
    /\ before = EmptyGraph
    /\ clicks = 0
    /\ inFlight = 0
    /\ ignored = 0

----------------------------------------------------------------------------
(* The graph of dagre and its layout *)

\* new dagre.graphlib.Graph(): its nodes and its edges in insertion order, and
\* what dagre.layout wrote into its nodes, nothing before the layout
EmptyDagre == [nodes |-> <<>>, edges |-> <<>>, laid |-> <<>>]

\* g.hasNode(id)
HasNode(gr, id) == \E i \in 1..Len(gr.nodes) : gr.nodes[i].id = id

\* g.setNode(id, { width, height }): a known id has its label replaced
SetNode(gr, id, width, height) ==
    LET label == [id |-> id, width |-> width, height |-> height]
    IN  IF HasNode(gr, id)
        THEN [gr EXCEPT !.nodes = [i \in 1..Len(gr.nodes) |->
                                      IF gr.nodes[i].id = id THEN label ELSE gr.nodes[i]]]
        ELSE [gr EXCEPT !.nodes = Append(gr.nodes, label)]

\* graphlib's setEdge makes sure both ends exist: an id that is no node yet
\* becomes a node without label, which dagre lays out with width and height 0
EnsureNode(gr, id) ==
    IF HasNode(gr, id) THEN gr
    ELSE [gr EXCEPT !.nodes = Append(gr.nodes, [id |-> id, width |-> 0, height |-> 0])]

\* g.setEdge(v, w, { minlen }): the graph is no multigraph, a known pair has
\* its label replaced
SetEdge(gr, v, w, minlen) ==
    LET gn == EnsureNode(EnsureNode(gr, v), w)
        label == [v |-> v, w |-> w, minlen |-> minlen]
    IN  IF \E i \in 1..Len(gn.edges) : gn.edges[i].v = v /\ gn.edges[i].w = w
        THEN [gn EXCEPT !.edges = [i \in 1..Len(gn.edges) |->
                                      IF gn.edges[i].v = v /\ gn.edges[i].w = w
                                      THEN label ELSE gn.edges[i]]]
        ELSE [gn EXCEPT !.edges = Append(gn.edges, label)]

\* the edges of gr that are no self loops: dagre sets the self loops aside
\* before it ranks
ProperEdges(gr) == { i \in 1..Len(gr.edges) : gr.edges[i].v # gr.edges[i].w }

\* g.outEdges(v), in insertion order
OutEdges(gr, v) == { i \in ProperEdges(gr) : gr.edges[i].v = v }

Min(S) == CHOOSE x \in S : \A y \in S : x <= y

RECURSIVE DfsNode(_, _, _, _)
RECURSIVE DfsEdges(_, _, _, _, _)
\* dagre's acyclicer, dfs(v): st holds the visited ids and the feedback edges
DfsNode(gr, v, stack, st) ==
    IF v \in st.visited THEN st
    ELSE DfsEdges(gr, v, OutEdges(gr, v), stack \cup {v},
                  [st EXCEPT !.visited = @ \cup {v}])

\* the loop of dfs(v) over g.outEdges(v): an edge into the stack is a feedback
\* edge, any other edge is followed
DfsEdges(gr, v, todo, stack, st) ==
    IF todo = {} THEN st
    ELSE LET e == Min(todo)
             w == gr.edges[e].w
             next == IF w \in stack THEN [st EXCEPT !.fas = @ \cup {e}]
                     ELSE DfsNode(gr, w, stack, st)
         IN  DfsEdges(gr, v, todo \ {e}, stack, next)

RECURSIVE DfsAll(_, _, _)
\* _.forEach(g.nodes(), dfs)
DfsAll(gr, i, st) ==
    IF i > Len(gr.nodes) THEN st
    ELSE DfsAll(gr, i + 1, DfsNode(gr, gr.nodes[i].id, {}, st))

\* the feedback arc set of gr: the edges dagre reverses to rank the graph
FeedbackEdges(gr) == DfsAll(gr, 1, [visited |-> {}, fas |-> {}]).fas

\* the constraints dagre ranks under: one per proper edge, a feedback edge
\* reversed
RankEdges(gr) ==
    LET fas == FeedbackEdges(gr)
    IN  { IF i \in fas
          THEN [v |-> gr.edges[i].w, w |-> gr.edges[i].v, minlen |-> gr.edges[i].minlen]
          ELSE gr.edges[i] : i \in ProperEdges(gr) }

RECURSIVE RankOf(_, _)
\* the rank of id: the longest path to it over the constraints, counted in
\* minlen; a node nothing leads to has rank 0
RankOf(cs, id) ==
    LET into == { c \in cs : c.w = id }
    IN  IF into = {} THEN 0
        ELSE Max({ RankOf(cs, c.v) + c.minlen : c \in into })

\* rankdir 'TB' with the sizes and separations each layout step sets
NodeWidth(eng, type) ==
    IF eng = "calculateLayout" THEN (IF type = "decision" THEN 120 ELSE 150)
    ELSE (IF type = "decision" THEN 150 ELSE 180)

NodeHeight(eng, type) ==
    IF eng = "calculateLayout" THEN (IF type = "decision" THEN 80 ELSE 60)
    ELSE (IF type = "decision" THEN 100 ELSE 60)

NodeSep(eng) == IF eng = "calculateLayout" THEN 80 ELSE 60

RankSep(eng) == IF eng = "calculateLayout" THEN 100 ELSE 120

Margin(eng) == IF eng = "calculateLayout" THEN 40 ELSE 0

\* indegree[id] || 0: the edges of the list that point to id
Indegree(es, id) == Cardinality({ i \in 1..Len(es) : es[i].to = id })

\* an edge laid out with the default minlen of dagre whatever its target
MinlenAlwaysOne(eng, es, e) == 1

\* the minlen of edge e: calculateLayout sets none and dagre takes 1, the
\* FlowCanvas effect sets targetIndegree > 1 ? 2 : 1
Minlen(eng, es, e) ==
    IF eng = "FlowCanvas" /\ Indegree(es, e.to) > 1 THEN 2 ELSE 1

RECURSIVE AddNodes(_, _, _, _)
\* nodes.forEach(node => g.setNode(node.id, { width, height, ... }))
AddNodes(gr, eng, ns, i) ==
    IF i > Len(ns) THEN gr
    ELSE AddNodes(SetNode(gr, ns[i].id, NodeWidth(eng, ns[i].type),
                          NodeHeight(eng, ns[i].type)), eng, ns, i + 1)

RECURSIVE AddEdgesReversed(_, _, _, _)
\* edges added with their ends swapped
AddEdgesReversed(gr, eng, es, i) ==
    IF i > Len(es) THEN gr
    ELSE AddEdgesReversed(SetEdge(gr, es[i].to, es[i].from, Minlen(eng, es, es[i])),
                          eng, es, i + 1)

RECURSIVE AddEdges(_, _, _, _)
\* edges.forEach(edge => g.setEdge(edge.from, edge.to, { minlen })); in
\* calculateLayout the two ends are edge.source and edge.target
AddEdges(gr, eng, es, i) ==
    IF i > Len(es) THEN gr
    ELSE AddEdges(SetEdge(gr, es[i].from, es[i].to, Minlen(eng, es, es[i])),
                  eng, es, i + 1)

RECURSIVE Sum(_, _)
\* the sum of f[x] over the x of S
Sum(S, f) ==
    IF S = {} THEN 0
    ELSE LET x == CHOOSE y \in S : TRUE IN f[x] + Sum(S \ {x}, f)

\* dagre.layout(g): the rank of every node of g, its place in its rank, and
\* the coordinates of its centre, ranks from top to bottom, the nodes of a
\* rank side by side in insertion order
DagreLayout(gr, eng) ==
    LET cs == RankEdges(gr)
        all == 1..Len(gr.nodes)
        rank == [i \in all |-> RankOf(cs, gr.nodes[i].id)]
        layer(r) == { i \in all : rank[i] = r }
        rankHeight(r) == IF layer(r) = {} THEN 0
                         ELSE Max({ gr.nodes[i].height : i \in layer(r) })
        leftOf(i) == { j \in layer(rank[i]) : j < i }
        widthOf(i) == gr.nodes[i].width
        maxRank == IF all = {} THEN 0 ELSE Max({ rank[i] : i \in all })
        step == [r \in 0..maxRank |-> rankHeight(r) + RankSep(eng)]
        place == [i \in all |-> widthOf(i) + NodeSep(eng)]
        rankWidth(r) == IF layer(r) = {} THEN 0
                        ELSE Sum(layer(r), place) - NodeSep(eng)
    IN  [nodes |-> [i \in all |->
                      [id |-> gr.nodes[i].id,
                       rank |-> rank[i],
                       order |-> Cardinality(leftOf(i)),
                       x |-> Margin(eng) + Sum(leftOf(i), place) + widthOf(i) \div 2,
                       y |-> Margin(eng) + Sum(0..(rank[i] - 1), step)
                               + rankHeight(rank[i]) \div 2,
                       width |-> widthOf(i),
                       height |-> gr.nodes[i].height]],
         width |-> IF all = {} THEN 0
                   ELSE 2 * Margin(eng) + Max({ rankWidth(r) : r \in 0..maxRank }),
         height |-> IF all = {} THEN 0
                    ELSE 2 * Margin(eng) + Sum(0..maxRank, step) - RankSep(eng)]

\* g.node(id) after the layout
DagreNode(lay, id) ==
    lay.nodes[CHOOSE i \in 1..Len(lay.nodes) : lay.nodes[i].id = id]

\* what the layout step hands on: nodes.map(node => ({ ...node, x, y, width,
\* height })) of the nodes it was given, the edges it was given, and the size
\* of the graph (graphDimensions.width || 800, graphDimensions.height || 600)
Positioned(lay, eng, ns, es) ==
    [nodes |-> [i \in 1..Len(ns) |->
                  LET dagreNode == DagreNode(lay, ns[i].id)
                  IN  [id |-> ns[i].id, label |-> ns[i].label, type |-> ns[i].type,
                       rank |-> dagreNode.rank, order |-> dagreNode.order,
                       x |-> dagreNode.x, y |-> dagreNode.y,
                       width |-> dagreNode.width, height |-> dagreNode.height]],
     edges |-> es,
     width |-> IF lay.width = 0 /\ eng = "calculateLayout" THEN 800 ELSE lay.width,
     height |-> IF lay.height = 0 /\ eng = "calculateLayout" THEN 600 ELSE lay.height]

NoLayout == [nodes |-> <<>>, edges |-> <<>>, width |-> 0, height |-> 0]

\* no layout step is running
LayoutIdle ==
    /\ engine = "calculateLayout"
    /\ lnodes = Arr(<<>>)
    /\ ledges = Arr(<<>>)
    /\ lpc = "done"
    /\ g = EmptyDagre
    /\ outcome = "none"
    /\ layout = NoLayout
    /\ laidOut = <<>>

----------------------------------------------------------------------------
(* The parser of utils/flowchartParser.js and the FlowchartCanvas component *)

RECURSIVE SplitArrows(_, _)
\* path.split(/U+2192|->/): cur is the piece being read
SplitArrows(s, cur) ==
    IF s = <<>> THEN <<cur>>
    ELSE IF Head(s) = UArrow THEN <<cur>> \o SplitArrows(Tail(s), <<>>)
    ELSE IF StartsWith(s, <<"-", ">">>)
         THEN <<cur>> \o SplitArrows(Slice(s, 3, Len(s)), <<>>)
    ELSE SplitArrows(Tail(s), Append(cur, Head(s)))

\* text.split(';').map(p => p.trim()).filter(p => p)
Paths(t) == Filter(MapTrim(SplitSemi(t, <<>>)))

\* path.split(/U+2192|->/).map(p => p.trim()).filter(p => p)
Parts(path) == Filter(MapTrim(SplitArrows(path, <<>>)))

\* the words of /^(yes|no|true|false)\s+(.+)$/i
Conditions == { <<"y", "e", "s">>, <<"n", "o">>, <<"t", "r", "u", "e">>,
                <<"f", "a", "l", "s", "e">> }

\* what (.+) holds when part starts with the word k and white space
ConditionRest(part, k) ==
    LET r == Slice(part, Len(k) + 1, Len(part))
    IN  Slice(r, LeadingWS(r) + 1, Len(r))

\* /^(yes|no|true|false)\s+(.+)$/i.test(part), with k for the word
MatchesCondition(part, k) ==
    /\ StartsWith(ToLowerCase(part), k)
    /\ LeadingWS(Slice(part, Len(k) + 1, Len(part))) >= 1
    /\ ConditionRest(part, k) # <<>>
    /\ AllDot(ConditionRest(part, k))

HasCondition(part) == \E k \in Conditions : MatchesCondition(part, k)

\* match[1].toLowerCase()
ConditionOf(part) == CHOOSE k \in Conditions : MatchesCondition(part, k)

IdCharacters ==
    { Lower[i] : i \in 1..26 } \cup { "0", "1", "2", "3", "4", "5", "6", "7", "8", "9" }

\* label.toLowerCase().replace(/[^a-z0-9]/g, '_')
NodeIdOf(label) ==
    [i \in 1..Len(label) |->
        IF ToLowerCase(label)[i] \in IdCharacters THEN ToLowerCase(label)[i] ELSE "_"]

\* part.includes('?')
Includes(part, c) == \E i \in 1..Len(part) : part[i] = c

RECURSIVE RemoveFirst(_, _)
\* prevPart.replace('?', ''): the first one only
RemoveFirst(part, c) ==
    IF part = <<>> THEN <<>>
    ELSE IF Head(part) = c THEN Tail(part)
    ELSE <<Head(part)>> \o RemoveFirst(Tail(part), c)

\* prevLabel: the part before without its question mark when it has one
PrevLabel(prevPart) ==
    IF Includes(prevPart, "?") THEN Trim(RemoveFirst(prevPart, "?")) ELSE prevPart

\* the body of the loop over parts for parts[i] (i counts from 1): the node
\* of the part is pushed unless its id is known, and from the second part on
\* the edge from prevNodeId unless the same edge is there
LegacyPart(graphNow, parts, i) ==
    LET part == parts[i]
        isDecision == Includes(part, "?")
        matched == i > 1 /\ HasCondition(part)
        condition == IF matched THEN ConditionOf(part) ELSE Null
        nodeLabel == IF matched THEN Trim(ConditionRest(part, ConditionOf(part)))
                     ELSE part
        nodeId == NodeIdOf(nodeLabel)
        known == \E j \in 1..Len(graphNow.nodes) : graphNow.nodes[j].id = nodeId
        prevPart == parts[i - 1]
        edgeCondition == IF Includes(prevPart, "?") THEN condition ELSE Null
        prevNodeId == NodeIdOf(PrevLabel(prevPart))
        edge == [source |-> prevNodeId, target |-> nodeId, label |-> edgeCondition]
        there == \E j \in 1..Len(graphNow.edges) : graphNow.edges[j] = edge
    IN  [nodes |-> IF known THEN graphNow.nodes
                   ELSE Append(graphNow.nodes,
                               [id |-> nodeId, label |-> nodeLabel,
                                type |-> IF isDecision THEN "decision" ELSE "process"]),
         edges |-> IF i = 1 \/ there THEN graphNow.edges
                   ELSE Append(graphNow.edges, edge)]

RECURSIVE LegacyParts(_, _, _)
\* for (let i = 0; i < parts.length; i++)
LegacyParts(graphNow, parts, i) ==
    IF i > Len(parts) THEN graphNow
    ELSE LegacyParts(LegacyPart(graphNow, parts, i), parts, i + 1)

RECURSIVE LegacyPaths(_, _, _)
\* paths.forEach((path) => ...)
LegacyPaths(graphNow, paths, k) ==
    IF k > Len(paths) THEN graphNow
    ELSE LegacyPaths(LegacyParts(graphNow, Parts(paths[k]), 1), paths, k + 1)

\* parseWorkflow of utils/flowchartParser.js
LegacyParseWorkflow(t) ==
    IF IsEmptyText(t) THEN [nodes |-> <<>>, edges |-> <<>>]
    ELSE LegacyPaths([nodes |-> <<>>, edges |-> <<>>], Paths(t), 1)

\* calculateLayout(nodes, edges) for arrays: the graph is built, dagre lays
\* it out, and the positioned nodes are returned with the edges
CalculateLayout(ns, es) ==
    LET given == [i \in 1..Len(es) |-> AIEdge(es[i].source, es[i].target, es[i].label)]
        built == AddEdges(AddNodes(EmptyDagre, "calculateLayout", ns, 1),
                          "calculateLayout", given, 1)
    IN  Positioned(DagreLayout(built, "calculateLayout"), "calculateLayout", ns, es)

\* what the canvas element shows
Canvas(state, lay) == [state |-> state, layout |-> lay]

\* the component before it is mounted
CanvasIdle ==
    /\ workflowText = <<>>
    /\ renderer = "null"
    /\ canvasLayout = NoLayout
    /\ canvas = Canvas("blank", NoLayout)
    /\ parsed = [nodes |-> <<>>, edges |-> <<>>]
    /\ cpc = "idle"
    /\ changes = 0

----------------------------------------------------------------------------
(* The state machine *)

Current == ParserState(nodes, edges, nodeMap, previousNodeId, pendingEdgeLabel,
                       lastDecisionNode)

Token == processedTokens[index + 1]

Kind == TokenKind(Token, previousNodeId, branchIndex, index)

\* one record of the history: the token, how it was taken, and what it did
\* (from: previousNodeId before the token, to: the node it resolved to,
\* edge: the position in edges of the edge it pushed, 0 when it pushed none)
LogEntry(kind, st) ==
    [branch |-> branchIndex, index |-> index, token |-> Token, kind |-> kind,
     decision |-> kind = "node" /\ IsDecision(NodeLabel(Token)),
     clean |-> IF kind = "node" THEN CleanLabel(NodeLabel(Token)) ELSE <<>>,
     from |-> previousNodeId,
     to |-> IF kind = "node" THEN st.previousNodeId ELSE NoNode,
     label |-> IF kind = "node" THEN EdgeLabel(Token, pendingEdgeLabel)
               ELSE st.pendingEdgeLabel,
     created |-> Len(st.nodes) > Len(nodes),
     edge |-> IF Len(st.edges) > Len(edges) THEN Len(st.edges) ELSE 0,
     lastDecision |-> lastDecisionNode]

\* what parseWorkflow returns: { nodes, edges }
Result == [nodes |-> nodes, edges |-> edges]

Install(st) ==
    /\ nodes' = st.nodes
    /\ edges' = st.edges
    /\ nodeMap' = st.nodeMap
    /\ previousNodeId' = st.previousNodeId
    /\ pendingEdgeLabel' = st.pendingEdgeLabel
    /\ lastDecisionNode' = st.lastDecisionNode

Init ==
    /\ IsInput(text)
    /\ pc = "call"
    /\ nodes = <<>>
    /\ edges = <<>>
    /\ nodeMap = EmptyMap
    /\ branches = <<>>
    /\ branchIndex = 0
    /\ processedTokens = <<>>
    /\ index = 0
    /\ previousNodeId = NoNode
    /\ pendingEdgeLabel = Null
    /\ lastDecisionNode = NoNode
    /\ log = <<>>
    /\ returned = <<>>
    /\ AppInit
    /\ LayoutIdle
    /\ CanvasIdle

\* if (!text || !text.trim()) return { nodes, edges }
ReturnEmpty ==
    /\ pc = "call"
    /\ IsEmptyText(text)
    /\ pc' = "done"
    /\ returned' = Append(returned, [text |-> text, result |-> Result])
    /\ UNCHANGED <<text, nodes, edges, nodeMap, branches, branchIndex,
                   processedTokens, index, previousNodeId, pendingEdgeLabel,
                   lastDecisionNode, log>>
    /\ UNCHANGED others

\* the arrows are normalized and the text is split into branches
SplitBranches ==
    /\ pc = "call"
    /\ ~IsEmptyText(text)
    /\ branches' = Branches(text)
    /\ branchIndex' = 0
    /\ pc' = "branch"
    /\ UNCHANGED <<text, nodes, edges, nodeMap, processedTokens, index,
                   previousNodeId, pendingEdgeLabel, lastDecisionNode, log, returned>>
    /\ UNCHANGED others

\* the callback of branches.forEach up to the token loop
BeginBranch ==
    /\ pc = "branch"
    /\ branchIndex < Len(branches)
    /\ processedTokens' = PreProcess(Tokens(branches[branchIndex + 1]))
    /\ index' = 0
    /\ Install(BranchStart(Current, branchIndex))
    /\ pc' = "token"
    /\ UNCHANGED <<text, branches, branchIndex, log, returned>>
    /\ UNCHANGED others

\* a token matching /^\[([^\]]+)\]$/
BracketOnlyToken ==
    /\ pc = "token"
    /\ index < Len(processedTokens)
    /\ Kind = "bracket"
    /\ LET st == StepBracketOnly(Current, Token, branchIndex, index)
       IN  /\ Install(st)
           /\ log' = Append(log, LogEntry("bracket", st))
    /\ index' = index + 1
    /\ UNCHANGED <<text, pc, branches, branchIndex, processedTokens, returned>>
    /\ UNCHANGED others

\* a keyword taken as an edge label
KeywordToken ==
    /\ pc = "token"
    /\ index < Len(processedTokens)
    /\ Kind = "keyword"
    /\ LET st == StepKeyword(Current, Token, branchIndex, index)
       IN  /\ Install(st)
           /\ log' = Append(log, LogEntry("keyword", st))
    /\ index' = index + 1
    /\ UNCHANGED <<text, pc, branches, branchIndex, processedTokens, returned>>
    /\ UNCHANGED others

\* every other token: a node
NodeToken ==
    /\ pc = "token"
    /\ index < Len(processedTokens)
    /\ Kind = "node"
    /\ LET st == StepNode(Current, Token)
       IN  /\ Install(st)
           /\ log' = Append(log, LogEntry("node", st))
    /\ index' = index + 1
    /\ UNCHANGED <<text, pc, branches, branchIndex, processedTokens, returned>>
    /\ UNCHANGED others

\* the token loop of the branch is over
EndBranch ==
    /\ pc = "token"
    /\ index = Len(processedTokens)
    /\ branchIndex' = branchIndex + 1
    /\ pc' = "branch"
    /\ UNCHANGED <<text, nodes, edges, nodeMap, branches, processedTokens, index,
                   previousNodeId, pendingEdgeLabel, lastDecisionNode, log, returned>>
    /\ UNCHANGED others

\* return { nodes, edges }
Return ==
    /\ pc = "branch"
    /\ branchIndex = Len(branches)
    /\ pc' = "done"
    /\ returned' = Append(returned, [text |-> text, result |-> Result])
    /\ UNCHANGED <<text, nodes, edges, nodeMap, branches, branchIndex,
                   processedTokens, index, previousNodeId, pendingEdgeLabel,
                   lastDecisionNode, log>>
    /\ UNCHANGED others

Next ==
    \/ ReturnEmpty
    \/ SplitBranches
    \/ BeginBranch
    \/ BracketOnlyToken
    \/ KeywordToken
    \/ NodeToken
    \/ EndBranch
    \/ Return

Spec == Init /\ [][Next]_vars

AgreesWithFunction == pc = "done" => Result = ParseWorkflow(text)

----------------------------------------------------------------------------
(* Reading the history *)

Node(id, label, type) == [id |-> id, label |-> label, type |-> type]

Edge(from, to, label) == [from |-> from, to |-> to, label |-> label]

NodeEntries == { j \in 1..Len(log) : log[j].kind = "node" }

LabelEntries == { j \in 1..Len(log) : log[j].kind # "node" }

\* the node tokens of j's branch processed before j
EarlierNodesOfBranch(j) ==
    { i \in NodeEntries : i < j /\ log[i].branch = log[j].branch }

\* the label tokens of j's branch processed before j
EarlierLabelsOfBranch(j) ==
    { i \in LabelEntries : i < j /\ log[i].branch = log[j].branch }

\* the node tokens ending with '?' processed before j
EarlierDecisions(j) == { i \in NodeEntries : i < j /\ log[i].decision }

\* j is the first node token of a branch after the first
FirstNodeOfLaterBranch(j) ==
    j \in NodeEntries /\ log[j].branch > 0 /\ EarlierNodesOfBranch(j) = {}

\* the text of the label a label token stands for
LabelOf(j) ==
    IF log[j].kind = "bracket" THEN Trim(BracketOnlyBody(log[j].token))
    ELSE log[j].token

\* the label waiting when node token j is reached: the one fused to the token
\* itself, else the one of the latest label token of the branch, else none
WaitingLabel(j) ==
    IF IsBracketPrefix(log[j].token) THEN BracketPrefixLabel(log[j].token)
    ELSE IF EarlierLabelsOfBranch(j) = {} THEN Null
    ELSE LabelOf(Max(EarlierLabelsOfBranch(j)))

----------------------------------------------------------------------------
(* C1 *)

\* C1: parseWorkflow on "Start -> Qualify lead? yes -> Book call; no -> Send
\* email -> End" returns the five nodes Start (process), Qualify lead
\* (decision), Book call, Send email, End (process) in this order and the four
\* edges Start->Qualify lead (null), Qualify lead->Book call ("yes"),
\* Qualify lead->Send email ("no"), Send email->End (null) in this order.
C1_ExampleGraph ==
    (pc = "done" /\ text = ExampleAscii) =>
        /\ nodes = << Node(0, Start, "process"), Node(1, QualifyLead, "decision"),
                      Node(2, BookCall, "process"), Node(3, SendEmail, "process"),
                      Node(4, End, "process") >>
        /\ edges = << Edge(0, 1, Null), Edge(1, 2, Yes), Edge(1, 3, No),
                      Edge(3, 4, Null) >>

C1_Witness == pc = "done" /\ text = ExampleAscii /\ Len(nodes) = 5 /\ Len(edges) = 4

----------------------------------------------------------------------------
(* C2 *)

\* C2: in every branch after the first, the first node token gets its edge
\* from the node of the latest token ending with '?' of the preceding
\* branches, carrying the label waiting in the branch; with no such token so
\* far it gets no edge.  "A? yes -> B; no -> C" gives A (decision), B, C and
\* the edges A->B "yes", A->C "no".
C2_CrossBranchContinuation ==
    /\ \A j \in NodeEntries :
         FirstNodeOfLaterBranch(j) =>
            IF EarlierDecisions(j) = {}
            THEN log[j].edge = 0
            ELSE /\ log[j].edge > 0
                 /\ edges[log[j].edge] =
                      Edge(log[Max(EarlierDecisions(j))].to, log[j].to, WaitingLabel(j))
    /\ (pc = "done" /\ text = BranchExample) =>
         /\ nodes = << Node(0, <<"A">>, "decision"), Node(1, <<"B">>, "process"),
                       Node(2, <<"C">>, "process") >>
         /\ edges = << Edge(0, 1, Yes), Edge(0, 2, No) >>

\* a later branch that found no decision to continue from, and one that did
\* and carried a label
C2_Witness ==
    /\ pc = "done"
    /\ \E j \in NodeEntries :
         FirstNodeOfLaterBranch(j) /\ EarlierDecisions(j) = {} /\ log[j].edge = 0
    /\ \E j \in NodeEntries :
         /\ FirstNodeOfLaterBranch(j)
         /\ log[j].edge > 0
         /\ edges[log[j].edge].label # Null
         /\ edges[log[j].edge].from # log[j].to

----------------------------------------------------------------------------
(* C3 *)

NodeIds == { nodes[i].id : i \in 1..Len(nodes) }

\* C3: at every point of the parse, both ends of every edge are ids of nodes
\* in the nodes array.
C3_NoDanglingEdge ==
    \A e \in 1..Len(edges) : edges[e].from \in NodeIds /\ edges[e].to \in NodeIds

\* a returned graph with a continuation edge and an edge into a reused node
C3_Witness ==
    /\ pc = "done"
    /\ Len(edges) >= 3
    /\ Len(nodes) < Cardinality(NodeEntries)
    /\ \E j \in NodeEntries : FirstNodeOfLaterBranch(j) /\ log[j].edge > 0

----------------------------------------------------------------------------
(* C4 *)

NodeWithId(id) == nodes[CHOOSE i \in 1..Len(nodes) : nodes[i].id = id]

\* C4: every node token ending with '?' resolves to a node of type decision,
\* and every node of type decision was resolved by a token ending with '?'.
C4_DecisionDetection ==
    /\ \A j \in NodeEntries :
         log[j].decision => NodeWithId(log[j].to).type = "decision"
    /\ \A i \in 1..Len(nodes) :
         nodes[i].type = "decision" =>
            \E j \in NodeEntries : log[j].to = nodes[i].id /\ log[j].decision

----------------------------------------------------------------------------
(* C5 *)

\* the last processed token of its branch, a node token
Terminating(j) ==
    j \in NodeEntries /\ \A i \in 1..Len(log) : i > j => log[i].branch # log[j].branch

\* the node a node token follows: the node of the previous node token of its
\* branch, else the last decision a later branch continues from, else none
Predecessor(j) ==
    IF EarlierNodesOfBranch(j) # {} THEN log[Max(EarlierNodesOfBranch(j))].to
    ELSE IF log[j].branch > 0 /\ EarlierDecisions(j) # {}
         THEN log[Max(EarlierDecisions(j))].to
    ELSE NoNode

NodesLabelled(label) == { i \in 1..Len(nodes) : nodes[i].label = label }

\* C5: when two branches end in node tokens of the same cleaned label, the
\* returned graph has exactly one node of that label, and each of the two
\* tokens that has a predecessor pushed an edge from it into that node.
C5_Merge ==
    pc = "done" =>
        \A j1, j2 \in NodeEntries :
            (j1 < j2 /\ Terminating(j1) /\ Terminating(j2)
               /\ log[j1].clean = log[j2].clean) =>
                /\ Cardinality(NodesLabelled(log[j1].clean)) = 1
                /\ \A j \in {j1, j2} :
                     /\ nodes[CHOOSE i \in NodesLabelled(log[j1].clean) : TRUE].id = log[j].to
                     /\ Predecessor(j) # NoNode =>
                          /\ log[j].edge > 0
                          /\ edges[log[j].edge].from = Predecessor(j)
                          /\ edges[log[j].edge].to = log[j].to

\* two branches merging into one node from two different predecessors
C5_Witness ==
    /\ pc = "done"
    /\ \E j1, j2 \in NodeEntries :
         /\ j1 < j2 /\ Terminating(j1) /\ Terminating(j2)
         /\ log[j1].clean = log[j2].clean
         /\ Predecessor(j1) # NoNode /\ Predecessor(j2) # NoNode
         /\ Predecessor(j1) # Predecessor(j2)

----------------------------------------------------------------------------
(* C6 *)

\* t with the n characters from position i replaced by r
ReplaceAt(t, i, n, r) == Slice(t, 1, i - 1) \o r \o Slice(t, i + n, Len(t))

UnicodeArrowsAt(t) == { i \in 1..Len(t) : t[i] = UArrow }

AsciiArrowsAt(t) == { i \in 1..(Len(t) - 1) : t[i] = "-" /\ t[i + 1] = ">" }

\* C6: replacing any one unicode arrow of the text by '->', or any one '->'
\* by the unicode arrow, leaves the returned graph unchanged; "A -> B" and the
\* same with the unicode arrow both give A, B and the edge A->B.
C6_ArrowNormalization ==
    (pc = "done" /\ text # Null) =>
        /\ \A i \in UnicodeArrowsAt(text) :
             ParseWorkflow(ReplaceAt(text, i, 1, Arrow)) = Result
        /\ \A i \in AsciiArrowsAt(text) :
             ParseWorkflow(ReplaceAt(text, i, 2, <<UArrow>>)) = Result
        /\ text \in {ArrowExampleAscii, ArrowExampleUnicode} =>
             /\ nodes = << Node(0, <<"A">>, "process"), Node(1, <<"B">>, "process") >>
             /\ edges = << Edge(0, 1, Null) >>

\* a text with both kinds of arrow that parses to a graph with an edge
C6_Witness ==
    /\ pc = "done"
    /\ text # Null
    /\ UnicodeArrowsAt(text) # {}
    /\ AsciiArrowsAt(text) # {}
    /\ Len(edges) >= 1

----------------------------------------------------------------------------
(* C7 *)

\* a text that is missing, empty or of white space only
Blank(t) == t = Null \/ \A i \in 1..Len(t) : t[i] \in {" ", "\t", "\n"}

\* C7: on a missing, empty or white-space-only text parseWorkflow takes the
\* early return: it processes nothing and returns no nodes and no edges.
C7_EmptyInput ==
    Blank(text) =>
        /\ pc \in {"call", "done"}
        /\ nodes = <<>> /\ edges = <<>> /\ log = <<>>
        /\ pc = "call" => ENABLED ReturnEmpty

C7_Witness == pc = "done" /\ text = <<" ", "\n", "\t">> /\ nodes = <<>> /\ edges = <<>>

----------------------------------------------------------------------------
(* C8 *)

\* the step tokens of the current branch, before the pre-processing
RawTokens == Tokens(branches[branchIndex + 1])

\* a label as a step token writes it: '[l]' or one of the keywords, any case
IsLabelText(l) == IsBracketOnly(l) \/ IsEdgeLabel(l)

\* the positions of a '?' of t that some text and at least one white-space
\* character before a label follow
FusedCuts(t) ==
    { p \in 2..Len(t) :
        /\ t[p] = "?"
        /\ LeadingWS(Slice(t, p + 1, Len(t))) >= 1
        /\ IsLabelText(Trim(Slice(t, p + 1, Len(t)))) }

\* t has the form <X>? <white space> <L>
Fused(t) == FusedCuts(t) # {}

FusedX(t) == Slice(t, 1, Max(FusedCuts(t)) - 1)

FusedL(t) == Trim(Slice(t, Max(FusedCuts(t)) + 1, Len(t)))

\* the label text of L: the bracket contents, or the keyword as written
LabelText(l) == IF IsBracketOnly(l) THEN Trim(BracketOnlyBody(l)) ELSE l

RECURSIVE Offset(_, _)
\* the number of processed tokens the raw tokens before the i-th gave
Offset(raw, i) ==
    IF i <= 1 THEN 0 ELSE Offset(raw, i - 1) + Len(PreProcessToken(raw[i - 1]))

\* the history record of the processed token at position o of the current branch
Entry(o) == log[CHOOSE j \in 1..Len(log) : log[j].branch = branchIndex /\ log[j].index = o]

\* C8: a step token <X>? <white space> <L>, L a bracketed label or a keyword
\* in any case, is split into the decision token X? and a label token: X?
\* resolves to a decision node labelled X, the label is taken as an edge
\* label, and the node token that follows it in the branch gets its edge from
\* that decision with that label.  "A? [approved] -> B" gives the decision A
\* and the edge A->B "approved"; "A? yes -> B" the edge A->B "yes".
C8_DecisionLabelFusion ==
    /\ pc = "token" =>
         \A i \in 1..Len(RawTokens) :
            Fused(RawTokens[i]) =>
               LET t == RawTokens[i]
                   o == Offset(RawTokens, i)
               IN  /\ Len(processedTokens) >= o + 2
                   /\ processedTokens[o + 1] = Trim(FusedX(t)) \o <<"?">>
                   /\ IsLabelText(processedTokens[o + 2])
                   /\ LabelText(processedTokens[o + 2]) = LabelText(FusedL(t))
                   /\ index > o =>
                        /\ Entry(o).kind = "node"
                        /\ NodeWithId(Entry(o).to).label = Entry(o).clean
                        /\ ~IsBracketPrefix(Trim(FusedX(t))) =>
                             /\ Entry(o).decision
                             /\ Entry(o).clean = Trim(FusedX(t))
                   /\ index > o + 1 =>
                        /\ Entry(o + 1).kind # "node"
                        /\ LabelOf(CHOOSE j \in 1..Len(log) : log[j] = Entry(o + 1))
                             = LabelText(FusedL(t))
                   /\ (index > o + 2 /\ Entry(o + 2).kind = "node"
                         /\ ~IsBracketPrefix(Entry(o + 2).token)) =>
                        /\ Entry(o + 2).edge > 0
                        /\ edges[Entry(o + 2).edge] =
                             Edge(Entry(o).to, Entry(o + 2).to, LabelText(FusedL(t)))
    /\ (pc = "done" /\ text = BracketExample) =>
         /\ nodes = << Node(0, <<"A">>, "decision"), Node(1, <<"B">>, "process") >>
         /\ edges = << Edge(0, 1, Approved) >>
    /\ (pc = "done" /\ text = KeywordExample) =>
         /\ nodes = << Node(0, <<"A">>, "decision"), Node(1, <<"B">>, "process") >>
         /\ edges = << Edge(0, 1, Yes) >>

----------------------------------------------------------------------------
(* C9 *)

\* the node tokens before j that allocated their node
CreatedBefore(j) == { i \in NodeEntries : i < j /\ log[i].created }

\* two labels that differ, but only in the case of their letters
CaseVariants(l1, l2) == l1 # l2 /\ ToLowerCase(l1) = ToLowerCase(l2)

\* C9: two node tokens resolve to the same node exactly when their cleaned
\* labels are equal character for character, case included; the first token
\* of a label allocates the node, under the next sequential id, and the later
\* ones reuse it; no two nodes share a label and no two share an id.
\* "A -> a -> A" gives the two nodes A, a and the edges A->a, a->A.
C9_NodeIdentity ==
    /\ \A j1, j2 \in NodeEntries :
         (log[j1].to = log[j2].to) <=> (log[j1].clean = log[j2].clean)
    /\ \A j \in NodeEntries :
         /\ log[j].created <=>
               ~\E i \in NodeEntries : i < j /\ log[i].clean = log[j].clean
         /\ log[j].created => log[j].to = Cardinality(CreatedBefore(j))
         /\ NodeWithId(log[j].to).label = log[j].clean
    /\ \A a, b \in 1..Len(nodes) :
         a # b => nodes[a].label # nodes[b].label /\ nodes[a].id # nodes[b].id
    /\ (pc = "done" /\ text = CaseExample) =>
         /\ nodes = << Node(0, <<"A">>, "process"), Node(1, <<"a">>, "process") >>
         /\ edges = << Edge(0, 1, Null), Edge(1, 0, Null) >>

\* a label met twice, and two labels that differ only in case
C9_Witness ==
    /\ pc = "done"
    /\ \E j1, j2 \in NodeEntries :
         j1 < j2 /\ log[j1].clean = log[j2].clean /\ ~log[j2].created
    /\ \E j1, j2 \in NodeEntries :
         CaseVariants(log[j1].clean, log[j2].clean) /\ log[j1].to # log[j2].to

----------------------------------------------------------------------------
(* C10 *)

\* the tokens of the history that equal a keyword, whatever the case
KeywordEntries == { j \in 1..Len(log) : IsEdgeLabel(log[j].token) }

\* a node token of j's branch came before j
HasPreviousNode(j) == EarlierNodesOfBranch(j) # {}

\* j's branch is a later branch and a token ending with '?' came before it
ContinuesDecision(j) == log[j].branch > 0 /\ EarlierDecisions(j) # {}

\* C10 as stated: a keyword token is an edge label, and makes no node, exactly
\* when a node token of its branch precedes it or its branch continues a
\* decision of an earlier branch; anywhere else, the first token of a later
\* branch with no decision seen included, it is a node token.
C10_KeywordClassification ==
    \A j \in KeywordEntries :
        /\ log[j].kind = "keyword" <=> (HasPreviousNode(j) \/ ContinuesDecision(j))
        /\ log[j].kind # "keyword" => log[j].kind = "node"
        /\ log[j].kind = "keyword" => ~log[j].created /\ log[j].to = NoNode

\* C10, amended: a keyword token is an edge label, and makes no node, exactly
\* when a node token of its branch precedes it, or its branch continues a
\* decision of an earlier branch, or it is the first token of a later branch,
\* a decision seen or not; anywhere else it is a node token.
C10_KeywordClassificationFirstToken ==
    \A j \in KeywordEntries :
        /\ log[j].kind = "keyword" <=>
              \/ HasPreviousNode(j)
              \/ ContinuesDecision(j)
              \/ (log[j].branch > 0 /\ log[j].index = 0)
        /\ log[j].kind # "keyword" => log[j].kind = "node" /\ log[j].to # NoNode
        /\ log[j].kind = "keyword" =>
              /\ ~log[j].created /\ log[j].to = NoNode /\ log[j].edge = 0
              /\ log[j].label = log[j].token

\* a keyword that became a node, one taken as a label after a node, and one
\* taken as a label at the head of a later branch with no decision seen
C10_Witness ==
    /\ pc = "done"
    /\ \E j \in KeywordEntries : log[j].kind = "node" /\ log[j].created
    /\ \E j \in KeywordEntries : log[j].kind = "keyword" /\ HasPreviousNode(j)
    /\ \E j \in KeywordEntries :
         /\ log[j].kind = "keyword"
         /\ log[j].branch > 0 /\ log[j].index = 0
         /\ EarlierDecisions(j) = {}

----------------------------------------------------------------------------
(* C11 *)

\* the nodes that some node token resolved to
NodesOfNodeTokens == { log[j].to : j \in NodeEntries }

\* C11: a token that is exactly a bracketed label '[...]' creates no node, no
\* node has a label that is bracketed label text, and both ends of every edge
\* are nodes that node tokens resolved to.
C11_LabelsNeverNodes ==
    /\ \A j \in 1..Len(log) :
         IsBracketOnly(log[j].token) =>
            log[j].kind = "bracket" /\ ~log[j].created /\ log[j].to = NoNode
    /\ \A i \in 1..Len(nodes) : ~IsBracketOnly(nodes[i].label)
    /\ \A e \in 1..Len(edges) :
         edges[e].from \in NodesOfNodeTokens /\ edges[e].to \in NodesOfNodeTokens

----------------------------------------------------------------------------
(* C12 *)

\* the node tokens up to j that have a predecessor
WithPredecessorUpTo(j) == { i \in NodeEntries : i <= j /\ Predecessor(i) # NoNode }

\* the label tokens of j's branch between the previous node token and j
LabelsSinceNode(j) ==
    { i \in EarlierLabelsOfBranch(j) : \A n \in EarlierNodesOfBranch(j) : n < i }

\* the label node token j carries: the one fused to it, else the latest label
\* token since the previous node token, else none
OwnLabel(j) ==
    IF IsBracketPrefix(log[j].token) THEN BracketPrefixLabel(log[j].token)
    ELSE IF LabelsSinceNode(j) = {} THEN Null
    ELSE LabelOf(Max(LabelsSinceNode(j)))

\* C12: every node token that has a predecessor pushes one edge, from the
\* predecessor to its node with the label waiting for it, and the edges stand
\* in the order of their tokens; no edge is dropped because another one joins
\* the same two nodes.  "A? yes -> B; no -> B" gives the two edges A->B "yes"
\* and A->B "no".
C12_EdgesNotCollapsed ==
    /\ LET withPredecessor == WithPredecessorUpTo(Len(log))
       IN  /\ Len(edges) = Cardinality(withPredecessor)
           /\ \A j \in NodeEntries :
                IF j \notin withPredecessor THEN log[j].edge = 0
                ELSE /\ log[j].edge = Cardinality({ i \in withPredecessor : i <= j })
                     /\ edges[log[j].edge] = Edge(Predecessor(j), log[j].to, OwnLabel(j))
    /\ (pc = "done" /\ text = SamePairExample) =>
         /\ nodes = << Node(0, <<"A">>, "decision"), Node(1, <<"B">>, "process") >>
         /\ edges = << Edge(0, 1, Yes), Edge(0, 1, No) >>

\* two edges between the same ordered pair of nodes with different labels
C12_Witness ==
    /\ pc = "done"
    /\ \E e1, e2 \in 1..Len(edges) :
         /\ e1 < e2
         /\ edges[e1].from = edges[e2].from /\ edges[e1].to = edges[e2].to
         /\ edges[e1].label # edges[e2].label
         /\ edges[e1].label # Null /\ edges[e2].label # Null

----------------------------------------------------------------------------
(* parseWorkflow called again and again *)

\* most calls of one behaviour
MaxCalls == 3

\* the texts of the repeated calls
CallTexts == ExampleTexts

\* a call that finds the nodeMap of the call before it
CallAgainKeepMap ==
    /\ pc = "done"
    /\ Len(returned) < MaxCalls
    /\ text' \in CallTexts
    /\ pc' = "call"
    /\ nodes' = <<>>
    /\ edges' = <<>>
    /\ branches' = <<>>
    /\ branchIndex' = 0
    /\ processedTokens' = <<>>
    /\ index' = 0
    /\ previousNodeId' = NoNode
    /\ pendingEdgeLabel' = Null
    /\ lastDecisionNode' = NoNode
    /\ log' = <<>>
    /\ UNCHANGED <<nodeMap, returned>>
    /\ UNCHANGED others

\* the next call of parseWorkflow: nodes, edges, nodeMap and lastDecisionNode
\* are locals of the call, and it starts with fresh ones
CallAgain ==
    /\ pc = "done"
    /\ Len(returned) < MaxCalls
    /\ text' \in CallTexts
    /\ pc' = "call"
    /\ nodes' = <<>>
    /\ edges' = <<>>
    /\ nodeMap' = EmptyMap
    /\ branches' = <<>>
    /\ branchIndex' = 0
    /\ processedTokens' = <<>>
    /\ index' = 0
    /\ previousNodeId' = NoNode
    /\ pendingEdgeLabel' = Null
    /\ lastDecisionNode' = NoNode
    /\ log' = <<>>
    /\ UNCHANGED returned
    /\ UNCHANGED others

InitCalls == Init /\ text \in CallTexts

NextCalls == Next \/ CallAgain

SpecCalls == InitCalls /\ [][NextCalls]_vars

----------------------------------------------------------------------------
(* C13 *)

\* C13: two calls of parseWorkflow on the same text return the same nodes, with
\* the same ids, labels and types, and the same edges in the same order,
\* whatever was parsed between them.
C13_Deterministic ==
    \A c1, c2 \in 1..Len(returned) :
        returned[c1].text = returned[c2].text =>
            returned[c1].result = returned[c2].result

\* a text parsed, another one parsed, and the first one parsed again, both
\* with nodes and edges
C13_Witness ==
    /\ Len(returned) = 3
    /\ returned[1].text = returned[3].text
    /\ returned[2].text # returned[1].text
    /\ Len(returned[1].result.edges) >= 2
    /\ Len(returned[2].result.edges) >= 2
    /\ \E i \in 1..Len(returned[1].result.nodes) :
         \E k \in 1..Len(returned[2].result.nodes) :
            returned[1].result.nodes[i].label = returned[2].result.nodes[k].label

----------------------------------------------------------------------------
(* C14 *)

\* the tokens of the history that no label rule took
Unlabelled(j) ==
    ~IsBracketOnly(log[j].token)
      /\ ~IsKeywordLabel(log[j].token, log[j].from, log[j].branch, log[j].index)

\* the parse has returned or one of its steps can be taken: the call is at
\* its guard, the branch loop is within its array, and the token loop is at
\* its end or at a token of a kind that one of the three token steps takes
CanStep ==
    \/ pc = "done"
    \/ pc = "call"
    \/ pc = "branch" /\ branchIndex <= Len(branches)
    \/ pc = "token" /\ index = Len(processedTokens)
    \/ pc = "token" /\ index < Len(processedTokens)
         /\ Kind \in {"bracket", "keyword", "node"}

\* C14: parseWorkflow never stops short of its return, and a token that is
\* neither a bracketed label nor a keyword taken as a label, a stray '[' or
\* ']' in it or not, is a node token: a decision when it ends with '?', with
\* the '?' cut off the label, a process otherwise.
C14_FallThrough ==
    /\ CanStep
    /\ \A j \in 1..Len(log) :
         Unlabelled(j) =>
            /\ log[j].kind = "node"
            /\ log[j].to \in NodeIds
            /\ NodeWithId(log[j].to).label = log[j].clean
            /\ ~IsBracketPrefix(log[j].token) =>
                 /\ log[j].decision <=> log[j].token[Len(log[j].token)] = "?"
                 /\ log[j].clean = IF log[j].decision
                                   THEN Trim(Slice(log[j].token, 1, Len(log[j].token) - 1))
                                   ELSE log[j].token
            /\ log[j].created =>
                 NodeWithId(log[j].to).type =
                    IF log[j].decision THEN "decision" ELSE "process"

\* a returned graph with a process node and a decision node made from tokens
\* with a stray bracket
C14_Witness ==
    /\ pc = "done"
    /\ \E j \in NodeEntries :
         IsStray(log[j].token) /\ log[j].created /\ ~log[j].decision
           /\ NodeWithId(log[j].to).label = log[j].token
    /\ \E j \in NodeEntries :
         IsStray(log[j].token) /\ log[j].created /\ log[j].decision
           /\ NodeWithId(log[j].to).type = "decision"

----------------------------------------------------------------------------
(* handleAIGenerate: the graph asked of the AI proxy *)

\* most requests of one behaviour
MaxClicks == 2

\* generate.js: the answer of the Pages Function to a graph the assistant
\* wrote, 200 with the graph when nodes and edges are arrays, 502 otherwise
ProxyAnswer(graphObj) ==
    IF graphObj.kind = "object" /\ IsArray(graphObj.nodes) /\ IsArray(graphObj.edges)
    THEN [json |-> TRUE, ok |-> TRUE, graph |-> graphObj]
    ELSE [json |-> TRUE, ok |-> FALSE, graph |-> NoGraph]

\* what can come back from fetch(proxyPath): the answers of the function, a
\* body that is not JSON, and any JSON body under any status
Responses ==
    { ProxyAnswer(gv) : gv \in GraphValues }
      \cup { [json |-> FALSE, ok |-> o, graph |-> NoGraph] : o \in BOOLEAN }
      \cup { [json |-> TRUE, ok |-> o, graph |-> gv] : o \in BOOLEAN, gv \in GraphValues }

\* the error generateFlowchartViaProxy throws on a response, "none" if it
\* returns data.graph
ProxyError(resp) ==
    IF ~resp.json THEN "Invalid JSON from proxy"
    ELSE IF ~resp.ok THEN "Proxy request failed"
    ELSE IF resp.graph.kind = "undefined" THEN "Proxy did not return graph"
    ELSE "none"

\* !graph || !Array.isArray(graph.nodes) || !Array.isArray(graph.edges)
IsInvalidGraph(gr) ==
    gr.kind = "undefined" \/ ~IsArray(gr.nodes) \/ ~IsArray(gr.edges)

\* no call of parseWorkflow is running
ParserIdle ==
    /\ text = Null
    /\ pc = "done"
    /\ nodes = <<>>
    /\ edges = <<>>
    /\ nodeMap = EmptyMap
    /\ branches = <<>>
    /\ branchIndex = 0
    /\ processedTokens = <<>>
    /\ index = 0
    /\ previousNodeId = NoNode
    /\ pendingEdgeLabel = Null
    /\ lastDecisionNode = NoNode
    /\ log = <<>>
    /\ returned = <<>>

\* a handler without if (loading) return: every call sends a request
StartRequestWhileLoading ==
    /\ clicks < MaxClicks
    /\ loading' = TRUE
    /\ response' \in Responses
    /\ before' = parsedData
    /\ clicks' = clicks + 1
    /\ aiPc' = "request"
    /\ inFlight' = inFlight + 1
    /\ UNCHANGED <<parsedData, graph, alert, ignored>>
    /\ UNCHANGED <<parserVars, layoutVars, canvasVars>>

\* if (loading) return; setLoading(true); the request goes out
StartRequest ==
    /\ aiPc = "idle"
    /\ ~loading
    /\ clicks < MaxClicks
    /\ loading' = TRUE
    /\ response' \in Responses
    /\ before' = parsedData
    /\ clicks' = clicks + 1
    /\ aiPc' = "request"
    /\ inFlight' = inFlight + 1
    /\ UNCHANGED <<parsedData, graph, alert, ignored>>
    /\ UNCHANGED <<parserVars, layoutVars, canvasVars>>

\* generateFlowchartViaProxy throws: the catch block alerts
RequestFails ==
    /\ aiPc = "request"
    /\ ProxyError(response) # "none"
    /\ alert' = ProxyError(response)
    /\ aiPc' = "finally"
    /\ inFlight' = inFlight - 1
    /\ UNCHANGED <<parsedData, loading, response, graph, before, clicks, ignored>>
    /\ UNCHANGED <<parserVars, layoutVars, canvasVars>>

\* const graph = await generateFlowchartViaProxy(prompt)
RequestReturns ==
    /\ aiPc = "request"
    /\ ProxyError(response) = "none"
    /\ graph' = response.graph
    /\ aiPc' = "check"
    /\ inFlight' = inFlight - 1
    /\ UNCHANGED <<parsedData, loading, response, alert, before, clicks, ignored>>
    /\ UNCHANGED <<parserVars, layoutVars, canvasVars>>

\* the basic safety check throws: the catch block alerts
GraphRejected ==
    /\ aiPc = "check"
    /\ IsInvalidGraph(graph)
    /\ alert' = "Invalid graph returned from AI"
    /\ aiPc' = "finally"
    /\ UNCHANGED <<parsedData, loading, response, graph, before, clicks, inFlight, ignored>>
    /\ UNCHANGED <<parserVars, layoutVars, canvasVars>>

\* setParsedData(graph)
GraphAccepted ==
    /\ aiPc = "check"
    /\ ~IsInvalidGraph(graph)
    /\ parsedData' = graph
    /\ aiPc' = "finally"
    /\ UNCHANGED <<loading, response, graph, alert, before, clicks, inFlight, ignored>>
    /\ UNCHANGED <<parserVars, layoutVars, canvasVars>>

\* finally { setLoading(false) }
Finally ==
    /\ aiPc = "finally"
    /\ loading' = FALSE
    /\ aiPc' = "idle"
    /\ UNCHANGED <<parsedData, response, graph, alert, before, clicks, inFlight, ignored>>
    /\ UNCHANGED <<parserVars, layoutVars, canvasVars>>

\* most calls of one behaviour that find loading set
MaxIgnored == 1

\* if (loading) return: a call while a request is under way
CallWhileLoading ==
    /\ loading
    /\ ignored < MaxIgnored
    /\ ignored' = ignored + 1
    /\ UNCHANGED <<parsedData, loading, aiPc, response, graph, alert, before, clicks,
                   inFlight>>
    /\ UNCHANGED <<parserVars, layoutVars, canvasVars>>

InitAI == ParserIdle /\ AppInit /\ LayoutIdle /\ CanvasIdle

NextAI ==
    \/ StartRequest
    \/ RequestFails
    \/ RequestReturns
    \/ GraphRejected
    \/ GraphAccepted
    \/ Finally
    \/ CallWhileLoading

SpecAI == InitAI /\ [][NextAI]_vars

\* once the request has settled the rest of handleAIGenerate runs to its
\* end: the check, the catch block and the finally block wait for nothing
SpecAIFair ==
    /\ SpecAI
    /\ WF_vars(GraphRejected)
    /\ WF_vars(GraphAccepted)
    /\ WF_vars(Finally)

----------------------------------------------------------------------------
(* C15 *)

\* every item of the array has the fields named
FieldsPresent(arr, fields) ==
    \A i \in 1..Len(arr.items) : \A f \in fields : arr.items[i][f] # "undefined"

\* the shape the claim asks of a graph: nodes and edges are arrays, every node
\* has its id, label and type, and every edge its two ends
IsWellShaped(gr) ==
    /\ gr.kind = "object"
    /\ IsArray(gr.nodes) /\ IsArray(gr.edges)
    /\ FieldsPresent(gr.nodes, {"id", "label", "type"})
    /\ FieldsPresent(gr.edges, {"from", "to"})

\* the request in flight has come to its end without a well-shaped graph
RequestFailed ==
    aiPc = "finally" /\ (ProxyError(response) # "none" \/ ~IsWellShaped(response.graph))

\* C15: the graph of the AI proxy replaces the displayed graph only when its
\* nodes and edges are arrays and the fields of its nodes and edges are
\* present; when the request fails or the graph is not of that shape, an error
\* is alerted and the displayed graph stays the one shown before.
C15_UntrustedGraph ==
    /\ parsedData # before => IsWellShaped(parsedData)
    /\ RequestFailed => alert # "none" /\ parsedData = before

----------------------------------------------------------------------------
(* The layout step: calculateLayout and the layout effect of FlowCanvas *)

\* most edges of a graph given to the layout step
MaxEdges == 3

LN1 == AINode("n1", "A", "process")
LN1d == AINode("n1", "A", "decision")
LN2 == AINode("n2", "B", "process")
LN3 == AINode("n3", "C", "process")

\* the node arrays the layout step is given, and two values that are none
NodeInputs ==
    { Undefined, NotArray, Arr(<<>>), Arr(<<LN1>>), Arr(<<LN1, LN2>>),
      Arr(<<LN1, LN2, LN3>>), Arr(<<LN1d, LN2, LN3>>) }

\* edges between the three ids, a self loop among them, and an edge with an
\* end, "n9", that no node array holds
EdgeChoices ==
    { AIEdge("n1", "n1", ""), AIEdge("n1", "n2", ""), AIEdge("n1", "n3", ""),
      AIEdge("n2", "n1", ""), AIEdge("n2", "n3", ""), AIEdge("n3", "n1", ""),
      AIEdge("n1", "n9", "") }

RECURSIVE EdgeSeqs(_)
\* the edge lists of exactly k edges
EdgeSeqs(k) ==
    IF k = 0 THEN { <<>> }
    ELSE { Append(es, e) : es \in EdgeSeqs(k - 1), e \in EdgeChoices }

\* the values the layout step is given for edges
IsEdgeInput(v) ==
    \/ v \in { Undefined, NotArray }
    \/ \E k \in 0..MaxEdges : v \in { Arr(es) : es \in EdgeSeqs(k) }

\* nodes.length === 0: the effect of FlowCanvas returns before it lays out
IsSkipped(eng, ns) == eng = "FlowCanvas" /\ IsArray(ns) /\ Len(ns.items) = 0

\* nodes.forEach or edges.forEach (nodes.length in FlowCanvas) is applied to
\* a value that has none: a TypeError leaves the layout step
IsTypeError(eng, ns, es) ==
    \/ ~IsArray(ns)
    \/ ~IsArray(es) /\ ~IsSkipped(eng, ns)

\* the record of a finished call
LayoutRecord(out, lay) ==
    [engine |-> engine, nodes |-> lnodes, edges |-> ledges, outcome |-> out,
     layout |-> lay]

\* the layout step is called
LayoutStart ==
    /\ engine \in { "calculateLayout", "FlowCanvas" }
    /\ lnodes \in NodeInputs
    /\ IsEdgeInput(ledges)
    /\ lpc = "start"
    /\ g = EmptyDagre
    /\ outcome = "none"
    /\ layout = NoLayout
    /\ laidOut = <<>>

\* a TypeError is thrown out of the layout step
LayoutThrows ==
    /\ lpc = "start"
    /\ IsTypeError(engine, lnodes, ledges)
    /\ outcome' = "TypeError"
    /\ lpc' = "done"
    /\ laidOut' = Append(laidOut, LayoutRecord("TypeError", NoLayout))
    /\ UNCHANGED <<engine, lnodes, ledges, g, layout>>
    /\ UNCHANGED <<parserVars, aiVars, canvasVars>>

\* if (!svgRef.current || nodes.length === 0) return
LayoutSkips ==
    /\ lpc = "start"
    /\ ~IsTypeError(engine, lnodes, ledges)
    /\ IsSkipped(engine, lnodes)
    /\ outcome' = "skipped"
    /\ lpc' = "done"
    /\ laidOut' = Append(laidOut, LayoutRecord("skipped", NoLayout))
    /\ UNCHANGED <<engine, lnodes, ledges, g, layout>>
    /\ UNCHANGED <<parserVars, aiVars, canvasVars>>

\* the nodes and the edges are added to g
BuildGraph ==
    /\ lpc = "start"
    /\ ~IsTypeError(engine, lnodes, ledges)
    /\ ~IsSkipped(engine, lnodes)
    /\ g' = AddEdges(AddNodes(g, engine, lnodes.items, 1), engine, ledges.items, 1)
    /\ lpc' = "built"
    /\ UNCHANGED <<engine, lnodes, ledges, outcome, layout, laidOut>>
    /\ UNCHANGED <<parserVars, aiVars, canvasVars>>

\* a layout step that writes the positions into the nodes it was given
RunDagreInPlace ==
    /\ lpc = "built"
    /\ LET lay == DagreLayout(g, engine)
           out == Positioned(lay, engine, lnodes.items, ledges.items)
       IN  /\ g' = [g EXCEPT !.laid = lay.nodes]
           /\ layout' = out
           /\ lnodes' = Arr(out.nodes)
           /\ laidOut' = Append(laidOut, LayoutRecord("laid out", out))
    /\ outcome' = "laid out"
    /\ lpc' = "done"
    /\ UNCHANGED <<engine, ledges>>
    /\ UNCHANGED <<parserVars, aiVars, canvasVars>>

\* dagre.layout(g), and the positioned nodes are handed on
RunDagre ==
    /\ lpc = "built"
    /\ LET lay == DagreLayout(g, engine)
           out == Positioned(lay, engine, lnodes.items, ledges.items)
       IN  /\ g' = [g EXCEPT !.laid = lay.nodes]
           /\ layout' = out
           /\ laidOut' = Append(laidOut, LayoutRecord("laid out", out))
    /\ outcome' = "laid out"
    /\ lpc' = "done"
    /\ UNCHANGED <<engine, lnodes, ledges>>
    /\ UNCHANGED <<parserVars, aiVars, canvasVars>>

InitLayout == ParserIdle /\ AppInit /\ LayoutStart /\ CanvasIdle

NextLayout ==
    \/ LayoutThrows
    \/ LayoutSkips
    \/ BuildGraph
    \/ RunDagre

SpecLayout == InitLayout /\ [][NextLayout]_vars

----------------------------------------------------------------------------
(* C16 *)

\* the ids of the nodes the layout step is given
GivenIds == { lnodes.items[i].id : i \in 1..Len(lnodes.items) }

\* the edges given whose source or target is no given node
DanglingEdges ==
    { i \in 1..Len(ledges.items) :
        ledges.items[i].from \notin GivenIds \/ ledges.items[i].to \notin GivenIds }

\* the nodes of g that are no given nodes
PhantomNodes == { i \in 1..Len(g.nodes) : g.nodes[i].id \notin GivenIds }

\* C16: given a node set and edges of which some edge has an end that is no
\* given node, the layout step ends in an error: it produces no layout and
\* puts no node of its own into the graph.
C16_FailFast ==
    (/\ lpc = "done"
     /\ IsArray(lnodes) /\ IsArray(ledges)
     /\ lnodes.items # <<>>
     /\ DanglingEdges # {}) =>
        /\ outcome # "laid out"
        /\ PhantomNodes = {}

----------------------------------------------------------------------------
(* C17 *)

\* nodes or edges is missing or is no array
IsMalformed == ~IsArray(lnodes) \/ ~IsArray(ledges)

\* C17: given nodes or edges that are missing or no array, the layout step
\* neither ends in an exception thrown out of it nor lays a graph out.
C17_ValidatesShape ==
    (lpc = "done" /\ IsMalformed) => outcome \notin { "TypeError", "laid out" }

----------------------------------------------------------------------------
(* C18 *)

\* the ids the edges given lead to from id
Successors(id) ==
    { ledges.items[i].to : i \in { j \in 1..Len(ledges.items) : ledges.items[j].from = id } }

RECURSIVE ReachedFrom(_, _)
\* the ids reached from the ids of S over at most k further edges
ReachedFrom(S, k) ==
    IF k = 0 THEN S
    ELSE ReachedFrom(S \cup UNION { Successors(id) : id \in S }, k - 1)

\* no id is reached from itself over the edges given
IsAcyclicInput ==
    \A i \in 1..Len(ledges.items) :
        ledges.items[i].from
            \notin ReachedFrom({ ledges.items[i].to }, Len(ledges.items))

\* what dagre.layout wrote into the node id of g
Laid(id) == g.laid[CHOOSE i \in 1..Len(g.laid) : g.laid[i].id = id]

\* the layout step has laid out the nodes and edges given
IsLaidOut == lpc = "done" /\ outcome = "laid out"

\* C18: in the layout of an acyclic graph every edge u -> v has v in a later
\* rank than u, and u above v.
C18_RankMonotone ==
    (IsLaidOut /\ IsAcyclicInput) =>
        \A i \in 1..Len(ledges.items) :
            LET u == Laid(ledges.items[i].from)
                v == Laid(ledges.items[i].to)
            IN  u.rank < v.rank /\ u.y < v.y

\* an acyclic graph with a path of two edges has been laid out
C18_Witness ==
    /\ IsLaidOut
    /\ IsAcyclicInput
    /\ \E i, j \in 1..Len(ledges.items) : ledges.items[i].to = ledges.items[j].from

----------------------------------------------------------------------------
(* C19 *)

\* the edges given that point to the target of edge i, edge i among them
IntoTargetOf(i) ==
    { j \in 1..Len(ledges.items) : ledges.items[j].to = ledges.items[i].to }

\* edge i points to a merge point
IsMergeEdge(i) == Cardinality(IntoTargetOf(i)) > 1

\* the minlen g holds for the edge from v to w
MinlenInGraph(v, w) ==
    g.edges[CHOOSE k \in 1..Len(g.edges) : g.edges[k].v = v /\ g.edges[k].w = w].minlen

\* C19: the layout effect of FlowCanvas gives every edge into a merge point
\* the minimum rank distance 2 and every other edge 1, and in the layout of an
\* acyclic graph the target of every edge into a merge point lies at least
\* two ranks after its source.
C19_MergeSpacing ==
    (engine = "FlowCanvas" /\ (lpc = "built" \/ IsLaidOut)) =>
        \A i \in 1..Len(ledges.items) :
            LET e == ledges.items[i]
            IN  /\ MinlenInGraph(e.from, e.to) = IF IsMergeEdge(i) THEN 2 ELSE 1
                /\ (IsLaidOut /\ IsAcyclicInput /\ IsMergeEdge(i)) =>
                       Laid(e.to).rank - Laid(e.from).rank >= 2

\* the layout effect of FlowCanvas has laid out an acyclic graph with a merge
\* point and an edge that leads to none
C19_Witness ==
    /\ engine = "FlowCanvas"
    /\ IsLaidOut
    /\ IsAcyclicInput
    /\ \E i, j \in 1..Len(ledges.items) : IsMergeEdge(i) /\ ~IsMergeEdge(j)

----------------------------------------------------------------------------
(* The layout step called again and again *)

MaxLayouts == 3

\* the graphs the layout step is called with: a chain, a merge, a single
\* node, a decision with two ways out, a cycle, no nodes at all, and nodes
\* that are missing
LayoutCalls ==
    { [nodes |-> Arr(<<LN1, LN2, LN3>>),
       edges |-> Arr(<<AIEdge("n1", "n2", ""), AIEdge("n2", "n3", "")>>)],
      [nodes |-> Arr(<<LN1, LN2, LN3>>),
       edges |-> Arr(<<AIEdge("n1", "n3", ""), AIEdge("n2", "n3", "")>>)],
      [nodes |-> Arr(<<LN1>>), edges |-> Arr(<<>>)],
      [nodes |-> Arr(<<LN1d, LN2, LN3>>),
       edges |-> Arr(<<AIEdge("n1", "n2", ""), AIEdge("n1", "n3", "")>>)],
      [nodes |-> Arr(<<LN1, LN2>>),
       edges |-> Arr(<<AIEdge("n1", "n2", ""), AIEdge("n2", "n1", "")>>)],
      [nodes |-> Arr(<<>>), edges |-> Arr(<<>>)],
      [nodes |-> Undefined, edges |-> Arr(<<>>)] }

\* a layout step that goes on with the graph of the call before
LayoutAgainKeepGraph ==
    /\ lpc = "done"
    /\ Len(laidOut) < MaxLayouts
    /\ engine' \in { "calculateLayout", "FlowCanvas" }
    /\ \E c \in LayoutCalls : lnodes' = c.nodes /\ ledges' = c.edges
    /\ lpc' = "start"
    /\ g' = g
    /\ outcome' = "none"
    /\ layout' = NoLayout
    /\ UNCHANGED laidOut
    /\ UNCHANGED <<parserVars, aiVars, canvasVars>>

\* the layout step is called once more: const g = new dagre.graphlib.Graph()
LayoutAgain ==
    /\ lpc = "done"
    /\ Len(laidOut) < MaxLayouts
    /\ engine' \in { "calculateLayout", "FlowCanvas" }
    /\ \E c \in LayoutCalls : lnodes' = c.nodes /\ ledges' = c.edges
    /\ lpc' = "start"
    /\ g' = EmptyDagre
    /\ outcome' = "none"
    /\ layout' = NoLayout
    /\ UNCHANGED laidOut
    /\ UNCHANGED <<parserVars, aiVars, canvasVars>>

InitLayouts ==
    /\ InitLayout
    /\ \E c \in LayoutCalls : lnodes = c.nodes /\ ledges = c.edges

NextLayouts == NextLayout \/ LayoutAgain

SpecLayouts == InitLayouts /\ [][NextLayouts]_vars

----------------------------------------------------------------------------
(* C20 *)

\* the calls i and j of the layout step were given the same graph
SameGraph(i, j) ==
    /\ laidOut[i].engine = laidOut[j].engine
    /\ laidOut[i].nodes = laidOut[j].nodes
    /\ laidOut[i].edges = laidOut[j].edges

\* C20: two calls of the layout step on the same nodes and edges end the same
\* way and hand on the same layout, the same rank, order, coordinates and size
\* of every node and the same width and height, whatever was laid out before.
C20_LayoutDeterministic ==
    \A i, j \in 1..Len(laidOut) :
        SameGraph(i, j) =>
            /\ laidOut[i].outcome = laidOut[j].outcome
            /\ laidOut[i].layout = laidOut[j].layout

\* a graph of several nodes has been laid out first and again after another
\* graph was laid out
C20_Witness ==
    /\ Len(laidOut) = 3
    /\ SameGraph(1, 3)
    /\ ~SameGraph(1, 2)
    /\ laidOut[1].engine = "calculateLayout"
    /\ laidOut[2].outcome = "laid out"
    /\ laidOut[3].outcome = "laid out"
    /\ Len(laidOut[3].layout.nodes) > 1

----------------------------------------------------------------------------
(* C21 *)

\* the node tokens that pushed an edge and have no label fused to them
PlainEdgeEntries ==
    { j \in NodeEntries : log[j].edge # 0 /\ ~IsBracketPrefix(log[j].token) }

\* C21: the edge of a node token carries the label of the label token that
\* stands before it since the previous node token of its branch, and null
\* when there is none, so that a label goes to the edge of the next node token
\* of its branch only; no label is pending when a branch starts or after a
\* node token.
C21_AttachOnce ==
    /\ \A j \in PlainEdgeEntries :
         edges[log[j].edge].label =
            IF LabelsSinceNode(j) = {} THEN Null ELSE LabelOf(Max(LabelsSinceNode(j)))
    /\ pc = "token" =>
         IF index = 0 THEN pendingEdgeLabel = Null
         ELSE IF log[Len(log)].kind = "node" THEN pendingEdgeLabel = Null
         ELSE pendingEdgeLabel = LabelOf(Len(log))

\* a label token, the node token after it with an edge that carries the
\* label, and a later node token of the branch with an edge that carries none
C21_Witness ==
    /\ pc = "done"
    /\ \E i \in LabelEntries : \E j, k \in PlainEdgeEntries :
         /\ log[i].branch = log[j].branch /\ log[j].branch = log[k].branch
         /\ i < j /\ j < k
         /\ LabelsSinceNode(j) = {i}
         /\ edges[log[j].edge].label = LabelOf(i)
         /\ edges[log[k].edge].label = Null

----------------------------------------------------------------------------
(* C22 *)

\* a token of two bracketed labels written together, '[a] [b]'
IsTwoLabels(token) ==
    IsBracketPrefix(token) /\ IsBracketOnly(BracketPrefixContent(token))

\* C22: of two label tokens before a node token the second one wins: with the
\* labels separated by an arrow the edge of the node token carries the later
\* label; two labels written together in one token make no node, and
\* "A -> [y] [x] -> B" gives the one edge A->B with the label x.
C22_LastWins ==
    /\ \A j \in PlainEdgeEntries :
         Cardinality(LabelsSinceNode(j)) > 1 =>
            edges[log[j].edge].label = LabelOf(Max(LabelsSinceNode(j)))
    /\ \A j \in 1..Len(log) :
         IsTwoLabels(log[j].token) => log[j].kind # "node" /\ ~log[j].created
    /\ (pc = "done" /\ text = TwoLabelsExample) =>
         /\ nodes = << Node(0, <<"A">>, "process"), Node(1, <<"B">>, "process") >>
         /\ edges = << Edge(0, 1, <<"x">>) >>

----------------------------------------------------------------------------
(* C23 *)

\* t has the form '[label] content': bracket contents that are not empty,
\* white space, and content
HasLabelPrefix(t) ==
    /\ Len(t) >= 1 /\ t[1] = "["
    /\ FirstClose(t, 1) >= 3
    /\ LeadingWS(Slice(t, FirstClose(t, 1) + 1, Len(t))) >= 1
    /\ Trim(Slice(t, FirstClose(t, 1) + 1, Len(t))) # <<>>

PrefixLabel(t) == Trim(Slice(t, 2, FirstClose(t, 1) - 1))

PrefixContent(t) == Trim(Slice(t, FirstClose(t, 1) + 1, Len(t)))

\* node token j stands for its content only: it resolves to the node labelled
\* content (without its '?', a decision, when content ends with '?'), and the
\* edge it pushes carries the trimmed bracket contents
FusesLabel(j) ==
    LET content == PrefixContent(log[j].token)
        isDecision == content[Len(content)] = "?"
        label == IF isDecision THEN Trim(Slice(content, 1, Len(content) - 1))
                 ELSE content
    IN  /\ log[j].kind = "node"
        /\ NodeWithId(log[j].to).label = label
        /\ log[j].created =>
              NodeWithId(log[j].to).type = IF isDecision THEN "decision" ELSE "process"
        /\ log[j].from # NoNode =>
              /\ log[j].edge # 0
              /\ edges[log[j].edge] =
                    Edge(log[j].from, log[j].to, PrefixLabel(log[j].token))

\* C23: a processed token '[label] content' is a node token for content only,
\* and the edge into its node carries the trimmed bracket contents, whatever
\* label was pending.
C23_LabelPrefixFusion ==
    \A j \in 1..Len(log) : HasLabelPrefix(log[j].token) => FusesLabel(j)

\* the same for the tokens whose content is one line
LabelPrefixFusionOneLine ==
    \A j \in 1..Len(log) :
        (HasLabelPrefix(log[j].token) /\ AllDot(PrefixContent(log[j].token))) =>
            FusesLabel(j)

----------------------------------------------------------------------------
(* C24 *)

RECURSIVE NonBlank(_)
\* the strings of ss that are not white space only, trimmed
NonBlank(ss) ==
    IF ss = <<>> THEN <<>>
    ELSE IF Trim(Head(ss)) = <<>> THEN NonBlank(Tail(ss))
    ELSE <<Trim(Head(ss))>> \o NonBlank(Tail(ss))

RECURSIVE JoinWith(_, _)
\* the strings of ss written one after the other with sep between them
JoinWith(ss, sep) ==
    IF ss = <<>> THEN <<>>
    ELSE IF Len(ss) = 1 THEN ss[1]
    ELSE Head(ss) \o sep \o JoinWith(Tail(ss), sep)

\* the pieces of t between its ';'
Pieces(t) == SplitSemi(NormalizeArrows(t), <<>>)

\* the step tokens of a piece that are not empty, trimmed
Steps(piece) == NonBlank(SplitArrow(piece, <<>>))

\* t without its empty branches, its empty step tokens and the white space
\* around its branches and tokens
CleanText(t) ==
    LET ps == Pieces(t)
    IN  JoinWith(NonBlank([i \in 1..Len(ps) |->
                              JoinWith(Steps(ps[i]), Sp \o Arrow \o Sp)]),
                 Semi)

\* the pieces of t that hold something but no step token
ArrowOnlyPieces(t) ==
    LET ps == Pieces(t)
    IN  { i \in 1..Len(ps) : Trim(ps[i]) # <<>> /\ Steps(ps[i]) = <<>> }

\* the pieces of t that hold a step token
StepPieces(t) ==
    LET ps == Pieces(t)
    IN  { i \in 1..Len(ps) : Steps(ps[i]) # <<>> }

\* C24 as stated: every text parses like the same text without its empty
\* branches and empty tokens and without the white space around them;
\* "; A ->  -> B ;;" parses like "A -> B".
C24_DiscardsEmpties ==
    (pc = "done" /\ text # Null) =>
        /\ CleanText(text) # text => ParseWorkflow(CleanText(text)) = Result
        /\ text = EmptiesExample =>
             /\ CleanText(text) = ArrowExampleAscii
             /\ nodes = << Node(0, <<"A">>, "process"), Node(1, <<"B">>, "process") >>
             /\ edges = << Edge(0, 1, Null) >>

\* C24, amended: the same for every text in which no branch of arrows only
\* stands before a branch with a step token.
C24_DiscardsEmptiesAmended ==
    (/\ pc = "done"
     /\ text # Null
     /\ LET withSteps == StepPieces(text)
        IN  \A i \in ArrowOnlyPieces(text) : \A k \in withSteps : k < i) =>
        /\ CleanText(text) # text => ParseWorkflow(CleanText(text)) = Result
        /\ text = EmptiesExample =>
             /\ CleanText(text) = ArrowExampleAscii
             /\ nodes = << Node(0, <<"A">>, "process"), Node(1, <<"B">>, "process") >>
             /\ edges = << Edge(0, 1, Null) >>

\* a text with an empty branch and an empty step token that parses to a graph
\* with an edge
C24_Witness ==
    /\ pc = "done"
    /\ text # Null
    /\ \A i \in ArrowOnlyPieces(text) : \A k \in StepPieces(text) : k < i
    /\ \E i \in 1..Len(Pieces(text)) : Trim(Pieces(text)[i]) = <<>>
    /\ \E i \in StepPieces(text) :
         Len(SplitArrow(Pieces(text)[i], <<>>)) > Len(Steps(Pieces(text)[i]))
    /\ CleanText(text) # text
    /\ Len(edges) >= 1

----------------------------------------------------------------------------
(* C25 *)

\* the tokens processed of branch k
EntriesOfBranch(k) == { j \in 1..Len(log) : log[j].branch = k }

\* the branches whose tokens were all taken as labels
LabelOnlyBranches ==
    { k \in 0..(Len(branches) - 1) :
        EntriesOfBranch(k) # {} /\ EntriesOfBranch(k) \subseteq LabelEntries }

\* the piece of t between ';' that branch k is
PieceOfBranch(t, k) ==
    CHOOSE i \in 1..Len(Pieces(t)) :
        /\ Trim(Pieces(t)[i]) # <<>>
        /\ Cardinality({ h \in 1..(i - 1) : Trim(Pieces(t)[h]) # <<>> }) = k

\* t with nothing left between the ';' around piece i
WithoutPiece(t, i) ==
    JoinWith([h \in 1..Len(Pieces(t)) |-> IF h = i THEN <<>> ELSE Pieces(t)[h]], Semi)

\* a label token adds no node and no edge and leaves lastDecisionNode alone
LabelsChangeNothing ==
    \A j \in LabelEntries :
        /\ ~log[j].created /\ log[j].edge = 0 /\ log[j].to = NoNode
        /\ log[j].lastDecision =
              IF j < Len(log) THEN log[j + 1].lastDecision ELSE lastDecisionNode

\* C25 as stated: a branch of label tokens only adds no node and no edge and
\* leaves lastDecisionNode alone, and the text parses like the same text with
\* the labels of that branch taken out.
C25_LabelOnlyBranch ==
    /\ LabelsChangeNothing
    /\ pc = "done" =>
         \A k \in LabelOnlyBranches :
            ParseWorkflow(WithoutPiece(text, PieceOfBranch(text, k))) = Result

\* C25, amended: the same for a branch of label tokens only that is not the
\* first branch of the text.
C25_LabelOnlyBranchAmended ==
    /\ LabelsChangeNothing
    /\ pc = "done" =>
         \A k \in LabelOnlyBranches :
            k > 0 => ParseWorkflow(WithoutPiece(text, PieceOfBranch(text, k))) = Result

\* a branch of labels only between a decision and a branch that goes on from
\* the decision
C25_Witness ==
    /\ pc = "done"
    /\ \E k \in LabelOnlyBranches :
         /\ k > 0
         /\ \E d \in NodeEntries : log[d].branch < k /\ log[d].decision
         /\ \E j \in NodeEntries : log[j].branch > k /\ log[j].edge # 0

----------------------------------------------------------------------------
(* C26 *)

\* the node tokens that created a node
CreatingEntries == { j \in NodeEntries : log[j].created }

\* the nodes stand in the order in which their labels first occurred, the
\* node at index i has the id i, and every node token resolves to the node of
\* its cleaned label
NodesInOrderOfFirstUse ==
    /\ Len(nodes) = Cardinality(CreatingEntries)
    /\ \A i \in 1..Len(nodes) : nodes[i].id = i - 1
    /\ \A j \in NodeEntries :
         /\ log[j].created <=> \A h \in NodeEntries : h < j => log[h].clean # log[j].clean
         /\ log[j].created =>
              nodes[Cardinality({ h \in CreatingEntries : h <= j })] =
                 Node(log[j].to, log[j].clean,
                      IF log[j].decision THEN "decision" ELSE "process")
         /\ NodeWithId(log[j].to).label = log[j].clean

\* a step leaves every node there is as it is
NodesKept ==
    /\ Len(nodes') >= Len(nodes)
    /\ \A i \in 1..Len(nodes) : nodes'[i] = nodes[i]

----------------------------------------------------------------------------
(* C27: calculateLayout leaves its arguments alone and hands on new nodes *)

\* the result of calculateLayout: one positioned node for every node given,
\* in the same order, with the id, the label and the type of that node, its
\* coordinates, and the size of its type; the edges as they were given
ResultOfInputs ==
    (engine = "calculateLayout" /\ outcome = "laid out") =>
        /\ Len(layout.nodes) = Len(lnodes.items)
        /\ \A i \in 1..Len(lnodes.items) :
              LET node == lnodes.items[i]
                  positioned == layout.nodes[i]
              IN  /\ positioned.id = node.id
                  /\ positioned.label = node.label
                  /\ positioned.type = node.type
                  /\ { "x", "y", "width", "height" } \subseteq DOMAIN positioned
                  /\ positioned.width = (IF node.type = "decision" THEN 120 ELSE 150)
                  /\ positioned.height = (IF node.type = "decision" THEN 80 ELSE 60)
        /\ layout.edges = ledges.items

\* no step of a calculateLayout call writes to the nodes or the edges given
InputsKept ==
    engine = "calculateLayout" => (lnodes' = lnodes /\ ledges' = ledges)

\* C27: calculateLayout never changes the nodes, the node objects or the
\* edges it is given, and its result holds one positioned node per given
\* node, in the same order, with id, label and type unchanged, x, y, width
\* and height added (120x80 for a decision, 150x60 otherwise), and the edges
\* as they were given
C27_LayoutFrame == [](ResultOfInputs) /\ [][InputsKept]_vars

\* a calculateLayout call that laid out a decision and two process nodes
C27_Witness ==
    /\ engine = "calculateLayout"
    /\ outcome = "laid out"
    /\ Len(layout.nodes) = 3
    /\ layout.nodes[1].type = "decision"
    /\ layout.nodes[1].width = 120
    /\ layout.nodes[2].width = 150
    /\ ledges.items # <<>>
    /\ layout.edges = ledges.items

----------------------------------------------------------------------------
(* C29: one request at a time, and loading is always reset *)

\* a call that finds loading set sends nothing and changes nothing
IgnoredCallChangesNothing ==
    ignored' # ignored =>
        /\ loading
        /\ UNCHANGED <<parsedData, loading, aiPc, response, graph, alert, before,
                       clicks, inFlight>>

\* the request has settled and handleAIGenerate has not yet returned
Settled == aiPc \in { "check", "finally" }

\* C29: at most one request to the proxy is in flight at any time, a call of
\* handleAIGenerate while loading is true sends no request and changes no
\* state, and once the request has settled (with a valid graph, an invalid
\* graph or an error) loading is eventually false again
C29_SingleFlight ==
    /\ [](inFlight <= 1 /\ (inFlight = 1 => loading))
    /\ [][IgnoredCallChangesNothing]_vars
    /\ (Settled ~> ~loading)

\* a second request has settled after a call was turned away during the
\* first, and the controls are enabled again
C29_Witness ==
    /\ clicks = 2
    /\ ignored = 1
    /\ inFlight = 0
    /\ aiPc = "idle"
    /\ ~loading

----------------------------------------------------------------------------
(* The FlowchartCanvas component: the effect on [renderer, workflowText] *)

MaxChanges == 2

DecisionExample == <<"A", "?", " ">> \o Arrow \o <<" ", "B">>

ConditionExample ==
    <<"A", "?", " ">> \o Arrow \o Sp \o Yes \o <<" ", "B", " ">> \o Arrow \o <<" ", "C">>

RepeatExample ==
    <<"A", " ">> \o Arrow \o <<" ", "B", ";", " ", "a", " ">> \o Arrow \o <<" ", "b">>

\* the texts the component is given
CanvasTexts ==
    { <<>>, Sp, Semi, <<"A">>, ArrowExampleAscii, ArrowExampleUnicode,
      DecisionExample, ConditionExample, RepeatExample, EXAMPLE_TEXT }

\* {layout && layout.nodes.length > 0 && (<div className="export-buttons">
ExportButtons == canvasLayout # NoLayout /\ Len(canvasLayout.nodes) > 0

\* the component is mounted with some text: the first effect has seen the
\* canvas element, the second has returned for want of a renderer
CanvasMounted ==
    /\ workflowText \in CanvasTexts
    /\ renderer = "null"
    /\ canvasLayout = NoLayout
    /\ canvas = Canvas("blank", NoLayout)
    /\ parsed = [nodes |-> <<>>, edges |-> <<>>]
    /\ cpc = "idle"
    /\ changes = 0

\* setRenderer(new FlowchartRenderer(canvasRef.current)): the effect on
\* [renderer, workflowText] is due
RendererReady ==
    /\ cpc = "idle"
    /\ renderer = "null"
    /\ renderer' = "ready"
    /\ cpc' = "effect"
    /\ UNCHANGED <<workflowText, canvasLayout, canvas, parsed, changes>>
    /\ UNCHANGED <<parserVars, aiVars, layoutVars>>

\* the parent hands the component another text: the effect is due
WorkflowTextChanges ==
    /\ cpc = "idle"
    /\ changes < MaxChanges
    /\ \E t \in CanvasTexts \ { workflowText } : workflowText' = t
    /\ changes' = changes + 1
    /\ cpc' = "effect"
    /\ UNCHANGED <<renderer, canvasLayout, canvas, parsed>>
    /\ UNCHANGED <<parserVars, aiVars, layoutVars>>

\* if (!renderer || !workflowText) return
EffectReturns ==
    /\ cpc = "effect"
    /\ renderer = "null" \/ workflowText = <<>>
    /\ cpc' = "idle"
    /\ UNCHANGED <<workflowText, renderer, canvasLayout, canvas, parsed, changes>>
    /\ UNCHANGED <<parserVars, aiVars, layoutVars>>

\* if (nodes.length === 0) { renderer.clear(); setLayout(null); return; }
EffectClears ==
    /\ cpc = "effect"
    /\ renderer = "ready"
    /\ workflowText # <<>>
    /\ LegacyParseWorkflow(workflowText).nodes = <<>>
    /\ parsed' = LegacyParseWorkflow(workflowText)
    /\ canvas' = Canvas("cleared", NoLayout)
    /\ canvasLayout' = NoLayout
    /\ cpc' = "idle"
    /\ UNCHANGED <<workflowText, renderer, changes>>
    /\ UNCHANGED <<parserVars, aiVars, layoutVars>>

\* setLayout(calculateLayout(nodes, edges)); renderer.render(newLayout)
EffectRenders ==
    /\ cpc = "effect"
    /\ renderer = "ready"
    /\ workflowText # <<>>
    /\ LET now == LegacyParseWorkflow(workflowText)
           newLayout == CalculateLayout(now.nodes, now.edges)
       IN  /\ now.nodes # <<>>
           /\ parsed' = now
           /\ canvasLayout' = newLayout
           /\ canvas' = Canvas("drawn", newLayout)
    /\ cpc' = "idle"
    /\ UNCHANGED <<workflowText, renderer, changes>>
    /\ UNCHANGED <<parserVars, aiVars, layoutVars>>

InitCanvas == ParserIdle /\ AppInit /\ LayoutIdle /\ CanvasMounted

NextCanvas ==
    \/ RendererReady
    \/ WorkflowTextChanges
    \/ EffectReturns
    \/ EffectClears
    \/ EffectRenders

SpecCanvas == InitCanvas /\ [][NextCanvas]_vars

----------------------------------------------------------------------------
(* C28: the edges of the legacy parser and its nodes *)

\* the ids of the nodes of the last parse
ParsedIds == { parsed.nodes[i].id : i \in 1..Len(parsed.nodes) }

\* C28: every edge that parseWorkflow of utils/flowchartParser.js returns
\* has the id of a returned node as its source and as its target, the edges
\* out of a decision "X?" and those after a "yes <label>" step included
C28_EdgesReferToNodes ==
    \A i \in 1..Len(parsed.edges) :
        parsed.edges[i].source \in ParsedIds /\ parsed.edges[i].target \in ParsedIds

\* the targets alone: the target of every returned edge is a returned node
EdgeTargetsAreNodes ==
    \A i \in 1..Len(parsed.edges) : parsed.edges[i].target \in ParsedIds

----------------------------------------------------------------------------
(* C30: what the canvas shows and the current text *)

\* C30: with the renderer ready and the effect done, a text that parses to
\* no node (the empty string, white space) leaves the canvas cleared, layout
\* null and no export buttons; any other text leaves layout the layout of
\* its parse
C30_DisplayFollowsText ==
    (renderer = "ready" /\ cpc = "idle") =>
        LET now == LegacyParseWorkflow(workflowText)
        IN  IF now.nodes = <<>>
            THEN canvasLayout = NoLayout /\ canvas.state # "drawn" /\ ~ExportButtons
            ELSE canvasLayout = CalculateLayout(now.nodes, now.edges)

\* the same for every text but the empty string
DisplayFollowsNonEmptyText ==
    (renderer = "ready" /\ cpc = "idle" /\ workflowText # <<>>) =>
        LET now == LegacyParseWorkflow(workflowText)
        IN  IF now.nodes = <<>>
            THEN canvasLayout = NoLayout /\ canvas.state # "drawn" /\ ~ExportButtons
            ELSE /\ canvasLayout = CalculateLayout(now.nodes, now.edges)
                 /\ canvas = Canvas("drawn", canvasLayout)

====
